---- MODULE Spec2Model ----
(***************************************************************************)
(* Kintsugi fracture module: crack growth, finalisation and the building   *)
(* of fragment boundaries from the grown cracks.                           *)
(*                                                                         *)
(* Numbers.  Positions are whole pixels, angles whole degrees, lengths     *)
(* whole pixels.  intensity is kept in hundredths (intensity 0.5 is 50).   *)
(* A call of Math.random() is an explicit argument r in 0..9 standing for  *)
(* the value r/10; every action draws its arguments from a small set.      *)
(* The three heading influences of growCrackStep (sine drift, curvature    *)
(* bias and jitter: at most 0.12 + 0.06 + 0.175 rad, about 20 degrees) are *)
(* one drawn argument dTheta in degrees.                                   *)
(***************************************************************************)
EXTENDS Integers, Sequences, FiniteSets, TLC

VARIABLES
  canvas,      \* the vessel: centerX, centerY, bowlRadius
  rng,         \* the values the random source can yield, per use
  input,       \* the impact point and the intensities the caller passes
  cracks,      \* the arena of crack paths
  crackPaths,  \* the top-level cracks (arena indices)
  growCalls,   \* per crack, the growCrackStep calls made while it was unfinished
  lastGrew,    \* the last growCrackStep call: its crack, its return value and
               \* whether the crack was finished when it was made
  pc,          \* the position of the running operation
  op,          \* the running operation
  args,        \* its arguments
  numWanted,   \* initializeTensionCracks: the number of cracks asked for
  initI,       \* initializeTensionCracks: the loop index
  iterations,  \* finalizeCracks: the pass counter
  anyGrew,     \* finalizeCracks: whether a crack grew in this pass
  allCracks,   \* the cracks collected for the running pass
  cursor,      \* the position in allCracks
  pass,        \* growTensionCracks: the pass counter
  ringI,       \* addRingCracks: the loop index
  fragments,   \* the fragments of the last createFracture call
  paths,       \* the flattened paths of the last createFracture call
  prev,        \* the intensity and fragment count of the call before
  calls,       \* the number of createFracture calls made
  ticks,       \* the number of growTensionCracks calls made
  lastOp,      \* the operation that returned last
  given,       \* the crack list as it was handed to the running createFracture
               \* or growTensionCracks call
  probe,       \* the last call of a pure function: its input and its result
  current,     \* state.current: whole, tension, shattered, pause or mending
  timer,       \* state.timer: the time of the last transition
  now,         \* Date.now(), in ms
  isHolding,   \* state.isHolding
  holdStart,   \* state.holdStart
  holdTime,    \* state.holdTime, in ms
  breakPoint,  \* state.breakPoint
  breakCount,  \* state.breakCount
  pendingPaths, \* state.pendingPaths
  pendingSeams, \* state.pendingSeams
  pendingPools, \* state.pendingPools
  goldPaths,   \* state.goldPaths
  goldSeams,   \* state.goldSeams
  goldPools,   \* state.goldPools
  holds,       \* the number of holds started so far
  born,        \* per crack of the arena, the hold during which it was created
  lastUpdate,  \* the state the last update() found and the fracture calls
               \* it made, in order
  pressIgnored, \* the last handler was a press that handleHoldStart dropped
  running,     \* the animation loop is scheduled (requestAnimationFrame)
  rateLimitMap, \* route.ts: per client key, the count and resetTime of its window
  served       \* per client key, when its window of 60 s was opened and the
               \* requests let through since

\* the state of the main loop (state.js) that the fracture module does not touch
loopVars == <<current, timer, now, isHolding, holdStart, holdTime, breakPoint,
              breakCount, pendingPaths, pendingSeams, pendingPools, goldPaths,
              goldSeams, goldPools, holds, born, lastUpdate, pressIgnored, running>>

\* the state of the image-generation endpoint
serverVars == <<rateLimitMap, served>>

vars == <<canvas, rng, input, cracks, crackPaths, growCalls, lastGrew, pc, op, args,
          numWanted, initI, iterations, anyGrew, allCracks, cursor, pass, ringI, fragments,
          paths, prev, calls, ticks, lastOp, given, probe, loopVars, serverVars>>

(***************************************************************************)
(* Arithmetic helpers                                                      *)
(***************************************************************************)
Abs(n) == IF n < 0 THEN -n ELSE n

Max(a, b) == IF a > b THEN a ELSE b

Min(a, b) == IF a < b THEN a ELSE b

\* n / d rounded to the nearest integer (d > 0)
Round(n, d) == (2 * n + d) \div (2 * d)

\* ceiling of n / d (d > 0)
Ceil(n, d) == -((-n) \div d)

\* 1000 * sin(d degrees), d = 0..90
SinTab ==
  << 0, 17, 35, 52, 70, 87, 105, 122, 139, 156, 174, 191, 208,
     225, 242, 259, 276, 292, 309, 326, 342, 358, 375, 391, 407, 423,
     438, 454, 469, 485, 500, 515, 530, 545, 559, 574, 588, 602, 616,
     629, 643, 656, 669, 682, 695, 707, 719, 731, 743, 755, 766, 777,
     788, 799, 809, 819, 829, 839, 848, 857, 866, 875, 883, 891, 899,
     906, 914, 921, 927, 934, 940, 946, 951, 956, 961, 966, 970, 974,
     978, 982, 985, 988, 990, 993, 995, 996, 998, 999, 999, 1000, 1000 >>

\* Math.PI, in degrees
PI == 180

\* an angle brought into 0..359
NormDeg(a) == a % (2 * PI)

\* 1000 * Math.sin(a), a in degrees
Sin(a) ==
  LET d == NormDeg(a) IN
  IF d <= 90 THEN SinTab[d + 1]
  ELSE IF d <= 180 THEN SinTab[180 - d + 1]
  ELSE IF d <= 270 THEN -SinTab[d - 180 + 1]
  ELSE -SinTab[360 - d + 1]

\* 1000 * Math.cos(a), a in degrees
Cos(a) == Sin(a + 90)

\* Math.atan2 for 0 <= y <= x, x > 0, in degrees
AtanOctant(y, x) == Round(450 * y * x + 157 * y * (x - y), 10 * x * x)

\* Math.atan2 for x >= 0, y >= 0, in degrees
AtanQuadrant(y, x) ==
  IF x = 0 /\ y = 0 THEN 0
  ELSE IF y <= x THEN AtanOctant(y, x)
  ELSE 90 - AtanOctant(x, y)

\* Math.atan2(y, x) in degrees, in -179..180
Atan2(y, x) ==
  IF x >= 0 /\ y >= 0 THEN AtanQuadrant(y, x)
  ELSE IF x < 0 /\ y >= 0 THEN 180 - AtanQuadrant(y, -x)
  ELSE IF x < 0 /\ y < 0 THEN
         (IF AtanQuadrant(-y, -x) = 0 THEN 180 ELSE AtanQuadrant(-y, -x) - 180)
  ELSE -AtanQuadrant(-y, x)

(***************************************************************************)
(* Crack paths.  The forest of cracks is kept in the arena `cracks`; a     *)
(* crack's branches and the top-level list crackPaths hold arena indices.  *)
(***************************************************************************)
Point(x, y) == [x |-> x, y |-> y]

createCrackPath(startX, startY, angle, maxLength, depth) ==
  [ points        |-> << Point(startX, startY) >>,
    angle         |-> NormDeg(angle),
    maxLength     |-> maxLength,
    currentLength |-> 0,
    depth         |-> depth,
    branches      |-> << >>,
    finished      |-> FALSE ]

\* the largest integer not above (bowlRadius * 0.95) squared
rimLimitSq(bowlRadius) ==
  LET q == (19 * bowlRadius) \div 20
      r == (19 * bowlRadius) % 20
  IN q * q + (40 * q * r + r * r) \div 400

\* faulty variant: no point counts as beyond the rim
beyondRim_never(cv, x, y) == FALSE

\* Math.hypot(x - centerX, y - centerY) > bowlRadius * 0.95
beyondRim(cv, x, y) ==
  (x - cv.centerX) * (x - cv.centerX) + (y - cv.centerY) * (y - cv.centerY)
    > rimLimitSq(cv.bowlRadius)

\* faulty variant: a step without its 6 px minimum
stepSize_noMinimum(rStep) == rStep

\* const stepSize = 6 + Math.random() * 10
stepSizeOf(rStep) == 6 + rStep

\* faulty variant: branching without the depth limit
mayBranch_anyDepth(depth, currentLength) == currentLength > 30

\* crackPath.depth < 3 && crackPath.currentLength > 30
mayBranch(depth, currentLength) == depth < 3 /\ currentLength > 30

\* Math.random() < 0.08 * intensity * (1 - crackPath.depth * 0.3)
branchDraw(rBranch, intensity, depth) ==
  10000 * rBranch < 8 * intensity * (10 - 3 * depth)

\* crackPath.angle + (Math.random() > 0.5 ? 1 : -1) * (0.5 + Math.random() * 0.7)
branchAngleOf(angle, rSide, rDefl) ==
  angle + (IF rSide > 5 THEN 1 ELSE -1) * (29 + 4 * rDefl)

\* crackPath.maxLength * (0.25 + Math.random() * 0.3)
branchMaxLength(maxLength, rFrac) == (maxLength * (25 + 3 * rFrac)) \div 100

\* the crack is finished when the new point leaves the rim circle or the
\* length budget is used up
stopsGrowing(cv, newX, newY, currentLength, maxLength) ==
  beyondRim(cv, newX, newY) \/ currentLength >= maxLength

\* the body of growCrackStep past its first line, on crack c of the arena:
\* the result is the arena after the call and the value the call returns
advanceCrack(cv, arena, c, intensity, rStep, dTheta, rBranch, rSide, rDefl, rFrac) ==
  LET crackPath     == arena[c]
      lastPoint     == crackPath.points[Len(crackPath.points)]
      stepSize      == stepSizeOf(rStep)
      angle         == NormDeg(crackPath.angle + dTheta)
      newX          == lastPoint.x + Round(Cos(angle) * stepSize, 1000)
      newY          == lastPoint.y + Round(Sin(angle) * stepSize, 1000)
      currentLength == crackPath.currentLength + stepSize
  IN
  IF stopsGrowing(cv, newX, newY, currentLength, crackPath.maxLength)
  THEN [cracks |-> [arena EXCEPT ![c].angle = angle,
                                 ![c].currentLength = currentLength,
                                 ![c].finished = TRUE],
        grew |-> FALSE]
  ELSE
    LET grown == [crackPath EXCEPT !.angle = angle,
                                   !.currentLength = currentLength,
                                   !.points = Append(@, Point(newX, newY))]
    IN
    IF mayBranch(crackPath.depth, currentLength)
         /\ branchDraw(rBranch, intensity, crackPath.depth)
    THEN
      LET branch == createCrackPath(newX, newY,
                                    branchAngleOf(angle, rSide, rDefl),
                                    branchMaxLength(crackPath.maxLength, rFrac),
                                    crackPath.depth + 1)
          b == Len(arena) + 1
      IN [cracks |-> Append([arena EXCEPT ![c] =
                               [grown EXCEPT !.branches = Append(@, b)]],
                            branch),
          grew |-> TRUE]
    ELSE [cracks |-> [arena EXCEPT ![c] = grown], grew |-> TRUE]

\* faulty variant: growCrackStep without its early return
growCrackStep_noEarlyReturn(cv, arena, c, intensity, rStep, dTheta, rBranch, rSide, rDefl, rFrac) ==
  advanceCrack(cv, arena, c, intensity, rStep, dTheta, rBranch, rSide, rDefl, rFrac)

\* growCrackStep(crackPath, intensity): if (crackPath.finished) return false
growCrackStep(cv, arena, c, intensity, rStep, dTheta, rBranch, rSide, rDefl, rFrac) ==
  IF arena[c].finished THEN [cracks |-> arena, grew |-> FALSE]
  ELSE advanceCrack(cv, arena, c, intensity, rStep, dTheta, rBranch, rSide, rDefl, rFrac)

(***************************************************************************)
(* Smoothing                                                               *)
(***************************************************************************)
\* one coordinate of catmullRomPoint at t = j / resolution
catmullRomCoord(a0, a1, a2, a3, j, res) ==
  Round(2 * a1 * res * res * res
          + (a2 - a0) * j * res * res
          + (2 * a0 - 5 * a1 + 4 * a2 - a3) * j * j * res
          + (3 * a1 - a0 - 3 * a2 + a3) * j * j * j,
        2 * res * res * res)

catmullRomPoint(p0, p1, p2, p3, j, res) ==
  Point(catmullRomCoord(p0.x, p1.x, p2.x, p3.x, j, res),
        catmullRomCoord(p0.y, p1.y, p2.y, p3.y, j, res))

RECURSIVE smoothSegments(_, _, _)
\* the samples the rounds i, i + 1, ... of the outer loop of getSmoothedPoints
\* push (i counts from 1): resolution samples per segment, at t = j / resolution
smoothSegments(pts, i, resolution) ==
  IF i > Len(pts) - 1 THEN << >>
  ELSE [k \in 1..resolution |->
          catmullRomPoint(pts[Max(1, i - 1)], pts[i], pts[i + 1],
                          pts[Min(Len(pts), i + 2)], k - 1, resolution)]
         \o smoothSegments(pts, i + 1, resolution)

\* faulty variant: the last control point is not pushed after the loop
getSmoothedPoints_noLastPoint(pts, resolution) ==
  IF Len(pts) < 2 THEN pts
  ELSE IF Len(pts) = 2 THEN pts
  ELSE smoothSegments(pts, 1, resolution)

\* getSmoothedPoints(crackPath, resolution), on the crack's points
getSmoothedPoints(pts, resolution) ==
  IF Len(pts) < 2 THEN pts
  ELSE IF Len(pts) = 2 THEN pts
  ELSE Append(smoothSegments(pts, 1, resolution), pts[Len(pts)])

(***************************************************************************)
(* Traversal of the crack forest                                           *)
(***************************************************************************)
RECURSIVE collectAllCracks(_, _)
\* the cracks of the list and, after each, its branches (parent first)
collectAllCracks(arena, list) ==
  IF list = << >> THEN << >>
  ELSE << Head(list) >>
         \o collectAllCracks(arena, arena[Head(list)].branches)
         \o collectAllCracks(arena, Tail(list))

\* one record of flattenCrackPaths
flattenRecord(crack) ==
  [ points    |-> getSmoothedPoints(crack.points, 4),
    rawPoints |-> crack.points,
    depth     |-> crack.depth ]

flattenCrackPaths(arena, list) ==
  LET all == collectAllCracks(arena, list)
  IN [k \in 1..Len(all) |-> flattenRecord(arena[all[k]])]

(***************************************************************************)
(* Seams and pools                                                         *)
(***************************************************************************)
\* faulty variant: the loop stops one pair early (i < points.length - 2)
seamsOfPath_skipsLast(path) ==
  [i \in 1..(Len(path.points) - 2) |->
     [ x1 |-> path.points[i].x,     y1 |-> path.points[i].y,
       x2 |-> path.points[i + 1].x, y2 |-> path.points[i + 1].y,
       progress |-> 0, flowProgress |-> 0,
       isJunction |-> (i = 1 \/ i = Len(path.points) - 1) ]]

\* the seams of one path record: one per pair of consecutive smoothed points
\* (thickness is a drawing attribute and is left out)
seamsOfPath(path) ==
  [i \in 1..(Len(path.points) - 1) |->
     [ x1 |-> path.points[i].x,     y1 |-> path.points[i].y,
       x2 |-> path.points[i + 1].x, y2 |-> path.points[i + 1].y,
       progress |-> 0, flowProgress |-> 0,
       isJunction |-> (i = 1 \/ i = Len(path.points) - 1) ]]

RECURSIVE pathsToSeams(_)
\* pathsToSeams(paths)
pathsToSeams(ps) ==
  IF ps = << >> THEN << >>
  ELSE seamsOfPath(Head(ps)) \o pathsToSeams(Tail(ps))

\* what lineIntersection returns for parallel or non-crossing segments
Null == [hit |-> FALSE]

\* denom, and the numerators of t and u, of lineIntersection(s1, s2)
denomOf(s1, s2) == (s1.x1 - s1.x2) * (s2.y1 - s2.y2) - (s1.y1 - s1.y2) * (s2.x1 - s2.x2)

tNumOf(s1, s2) == (s1.x1 - s2.x1) * (s2.y1 - s2.y2) - (s1.y1 - s2.y1) * (s2.x1 - s2.x2)

uNumOf(s1, s2) == -((s1.x1 - s1.x2) * (s1.y1 - s2.y1) - (s1.y1 - s1.y2) * (s1.x1 - s2.x1))

\* faulty variant: the window of t and u is the whole segment, (0, 1)
inMiddle_wholeSegment(num, denom) ==
  LET sgn == IF denom < 0 THEN -1 ELSE 1
  IN sgn * num > 0 /\ sgn * num < Abs(denom)

\* num / denom > 0.1 && num / denom < 0.9 (denom # 0)
inMiddle(num, denom) ==
  LET sgn == IF denom < 0 THEN -1 ELSE 1
  IN 10 * sgn * num > Abs(denom) /\ 10 * sgn * num < 9 * Abs(denom)

\* lineIntersection(s1, s2): the crossing point, rounded to the pixel, or null
lineIntersection(s1, s2) ==
  LET denom == denomOf(s1, s2)
      sgn   == IF denom < 0 THEN -1 ELSE 1
      tNum  == tNumOf(s1, s2)
      uNum  == uNumOf(s1, s2)
  IN IF Abs(denom) * 1000 < 1 THEN Null
     ELSE IF inMiddle(tNum, denom) /\ inMiddle(uNum, denom)
          THEN [ hit |-> TRUE,
                 x |-> s1.x1 + Round(sgn * tNum * (s1.x2 - s1.x1), Abs(denom)),
                 y |-> s1.y1 + Round(sgn * tNum * (s1.y2 - s1.y1), Abs(denom)) ]
          ELSE Null

\* faulty variant: the inner loop starts at 0 and skips only j = i
seamPairs_ordered(n) ==
  SelectSeq([p \in 1..(n * n) |-> [i |-> ((p - 1) \div n) + 1, j |-> ((p - 1) % n) + 1]],
            LAMBDA pair : pair.i # pair.j)

\* the pairs (i, j) of the two loops of findIntersections, in the order the
\* loops visit them: seam i with every later seam j
seamPairs(n) ==
  SelectSeq([p \in 1..(n * n) |-> [i |-> ((p - 1) \div n) + 1, j |-> ((p - 1) % n) + 1]],
            LAMBDA pair : pair.i < pair.j)

\* findIntersections(seams): one pool per pair lineIntersection accepts
\* (size is a drawing attribute and is left out)
findIntersections(seams) ==
  LET met == SelectSeq(seamPairs(Len(seams)),
                       LAMBDA pair : lineIntersection(seams[pair.i], seams[pair.j]).hit)
  IN [k \in 1..Len(met) |->
        LET intersection == lineIntersection(seams[met[k].i], seams[met[k].j])
        IN [x |-> intersection.x, y |-> intersection.y, progress |-> 0]]

(***************************************************************************)
(* Fragments from the crack geometry                                       *)
(***************************************************************************)
Reverse(s) == [k \in 1..Len(s) |-> s[Len(s) + 1 - k]]

\* the paths createFragmentsFromCrackGeometry collects: cracks with at least
\* two points, smoothed at resolution 3
collectPaths(arena, list) ==
  LET all    == collectAllCracks(arena, list)
      usable == SelectSeq(all, LAMBDA c : Len(arena[c].points) >= 2)
  IN [k \in 1..Len(usable) |->
        [ points |-> getSmoothedPoints(arena[usable[k]].points, 3),
          raw    |-> arena[usable[k]].points ]]

\* Math.atan2(pt.y - cy, pt.x - cx)
angleFromCenter(cv, pt) == Atan2(pt.y - cv.centerY, pt.x - cv.centerX)

endpointOf(cv, path) ==
  [ angle     |-> angleFromCenter(cv, path.points[Len(path.points)]),
    path      |-> path.points,
    synthetic |-> FALSE ]

RECURSIVE InsertSorted(_, _)
\* e put into a sequence sorted by angle, after the entries of equal angle
InsertSorted(sorted, e) ==
  IF sorted = << >> THEN << e >>
  ELSE IF e.angle < Head(sorted).angle THEN << e >> \o sorted
  ELSE << Head(sorted) >> \o InsertSorted(Tail(sorted), e)

RECURSIVE sortByAngle(_)
\* endpoints.sort((a, b) => a.angle - b.angle)
sortByAngle(es) ==
  IF es = << >> THEN << >>
  ELSE InsertSorted(sortByAngle(SubSeq(es, 1, Len(es) - 1)), es[Len(es)])

\* the gap the loop computes after entry i (1-based)
gapAfter(es, i) ==
  LET next == (i % Len(es)) + 1
  IN es[next].angle - es[i].angle + (IF next = 1 THEN 2 * PI ELSE 0)

RECURSIVE maxGapFrom(_, _, _, _)
\* the scan for the largest gap: the first index whose gap exceeds all
\* earlier ones, starting from maxGap = 0, maxIdx = 0
maxGapFrom(es, i, maxGap, maxIdx) ==
  IF i > Len(es) THEN [maxGap |-> maxGap, maxIdx |-> maxIdx]
  ELSE IF gapAfter(es, i) > maxGap THEN maxGapFrom(es, i + 1, gapAfter(es, i), i)
  ELSE maxGapFrom(es, i + 1, maxGap, maxIdx)

\* the synthetic radial crack put at angle na
syntheticEndpoint(cv, na) ==
  [ angle     |-> na,
    path      |-> << Point(cv.centerX, cv.centerY),
                     Point(cv.centerX + Round(Cos(na) * cv.bowlRadius * 95, 100000),
                           cv.centerY + Round(Sin(na) * cv.bowlRadius * 95, 100000)) >>,
    synthetic |-> TRUE ]

\* the least number of dividers
MinSectors == 5

\* one round of the while loop (endpoints not empty)
addSyntheticWedge(cv, es) ==
  LET m        == maxGapFrom(es, 1, 0, 1)
      newAngle == es[m.maxIdx].angle + (m.maxGap \div 2)
      na       == IF newAngle > PI THEN newAngle - 2 * PI ELSE newAngle
  IN SubSeq(es, 1, m.maxIdx) \o << syntheticEndpoint(cv, na) >>
       \o SubSeq(es, m.maxIdx + 1, Len(es))

RECURSIVE ensureMinimumSectors(_, _)
\* while (endpoints.length < 5) ...; with no endpoint at all the read of
\* endpoints[maxIdx].angle throws a TypeError
ensureMinimumSectors(cv, es) ==
  IF Len(es) >= MinSectors THEN [threw |-> FALSE, endpoints |-> es]
  ELSE IF es = << >> THEN [threw |-> TRUE, endpoints |-> es]
  ELSE ensureMinimumSectors(cv, addSyntheticWedge(cv, es))

\* Math.hypot(pt.x - cx, pt.y - cy) > 5
awayFromCenter(cv, pt) ==
  (pt.x - cv.centerX) * (pt.x - cv.centerX)
    + (pt.y - cv.centerY) * (pt.y - cv.centerY) > 25

\* the angular extent of the rim arc from crack1's end to crack2's end
arcLengthOf(cv, path1, path2) ==
  LET angle1 == angleFromCenter(cv, path1[Len(path1)])
      angle2 == angleFromCenter(cv, path2[Len(path2)])
  IN (IF angle2 < angle1 THEN angle2 + 2 * PI ELSE angle2) - angle1

\* Math.max(2, Math.ceil(arcLength / 0.3)); 0.3 rad is 17.1887 degrees
numArcPointsOf(arcLength) == Max(2, Ceil(arcLength * 10000, 171887))

\* the i-th point of the rim arc
arcPoint(cv, angle1, arcLength, numArcPoints, i, rimJitter) ==
  LET angle == angle1 + Round(arcLength * i, numArcPoints)
      rVar  == Round(cv.bowlRadius * 96, 100) + Round(Sin(angle * 5) * 6, 1000)
                 + rimJitter
  IN Point(cv.centerX + Round(Cos(angle) * rVar, 1000),
           cv.centerY + Round(Sin(angle) * rVar, 1000))

\* buildFragmentBoundary(crack1, crack2, cx, cy)
buildFragmentBoundary(cv, crack1, crack2, rimJitter) ==
  LET path1        == crack1.path
      path2        == crack2.path
      angle1       == angleFromCenter(cv, path1[Len(path1)])
      arcLength    == arcLengthOf(cv, path1, path2)
      numArcPoints == numArcPointsOf(arcLength)
  IN << Point(cv.centerX, cv.centerY) >>
       \o SelectSeq(path1, LAMBDA pt : awayFromCenter(cv, pt))
       \o [i \in 1..(numArcPoints - 1) |->
             arcPoint(cv, angle1, arcLength, numArcPoints, i, rimJitter)]
       \o SelectSeq(Reverse(path2), LAMBDA pt : awayFromCenter(cv, pt))

RECURSIVE SumSeq(_)
\* the sum of a sequence of numbers
SumSeq(s) == IF s = << >> THEN 0 ELSE Head(s) + SumSeq(Tail(s))

\* twice the signed area of the boundary polygon
twiceArea(boundary) ==
  LET n == Len(boundary)
  IN SumSeq([j \in 1..n |-> boundary[j].x * boundary[(j % n) + 1].y
                               - boundary[(j % n) + 1].x * boundary[j].y])

\* faulty variant: no boundary is skipped
keepsBoundary_all(boundary) == TRUE

\* if (boundary.length < 3) continue; ... if (Math.abs(area) / 2 < 100) continue
keepsBoundary(boundary) ==
  /\ ~(Len(boundary) < 3)
  /\ ~(Abs(twiceArea(boundary)) < 200)

\* the fragment pushed for a boundary: vertices relative to the centroid
fragmentOf(boundary) ==
  LET n         == Len(boundary)
      centroidX == Round(SumSeq([j \in 1..n |-> boundary[j].x]), n)
      centroidY == Round(SumSeq([j \in 1..n |-> boundary[j].y]), n)
  IN [ vertices |-> [j \in 1..n |-> Point(boundary[j].x - centroidX,
                                          boundary[j].y - centroidY)],
       x |-> centroidX, y |-> centroidY,
       originX |-> centroidX, originY |-> centroidY ]

\* the boundaries of all sectors, in order
sectorBoundaries(cv, es, rimJitter) ==
  [i \in 1..Len(es) |->
     buildFragmentBoundary(cv, es[i], es[(i % Len(es)) + 1], rimJitter)]

\* createFragmentsFromCrackGeometry(crackPaths, impactX, impactY, intensity)
createFragmentsFromCrackGeometry(cv, arena, list, rimJitter) ==
  LET allPaths  == collectPaths(arena, list)
      endpoints == sortByAngle([k \in 1..Len(allPaths) |-> endpointOf(cv, allPaths[k])])
      ensured   == ensureMinimumSectors(cv, endpoints)
  IN IF ensured.threw THEN [threw |-> TRUE, fragments |-> << >>]
     ELSE
       LET kept == SelectSeq(sectorBoundaries(cv, ensured.endpoints, rimJitter),
                               keepsBoundary)
       IN [threw |-> FALSE,
           fragments |-> [k \in 1..Len(kept) |-> fragmentOf(kept[k])]]

(***************************************************************************)
(* Crack creation                                                          *)
(***************************************************************************)
\* baseAngle + (Math.random() - 0.5) * (Math.PI / numCracks) * 0.8
tensionAngle(i, numCracks, rJit) ==
  Round(2 * PI * i, numCracks) + Round((rJit - 5) * PI * 8, 100 * numCracks)

\* canvas.bowlRadius * (0.6 + Math.random() * 0.4)
tensionMaxLength(cv, rLen) == (cv.bowlRadius * (60 + 4 * rLen)) \div 100

\* the i-th crack (i from 0) of initializeTensionCracks(x, y, numCracks)
tensionCrack(cv, x, y, i, numCracks, rJit, rLen) ==
  createCrackPath(x, y, tensionAngle(i, numCracks, rJit),
                  tensionMaxLength(cv, rLen), 0)

\* Math.floor(5 + intensity * 8)
fractureCrackCount(intensity) == (500 + 8 * intensity) \div 100

\* Math.floor(4 + intensity * 4)
tensionCrackCount(intensity) == (400 + 4 * intensity) \div 100

\* faulty variant: a call makes no growth pass
growthRateOf_none(intensity) == 0

\* Math.floor(2 + intensity * 4)
growthRateOf(intensity) == (200 + 4 * intensity) \div 100

\* Math.floor(6 + intensity * 10)
targetCracksOf(intensity) == (600 + 10 * intensity) \div 100

\* Math.random() < 0.15 * intensity
injectDraw(rInj, intensity) == 200 * rInj < 3 * intensity

\* the crack growTensionCracks may add
injectedCrack(cv, x, y, intensity, rAng) ==
  createCrackPath(x, y, rAng * 36, (cv.bowlRadius * (80 + intensity)) \div 200, 0)

\* while (iterations++ < 500)
MaxIterations == 500

\* faulty variant: ring cracks are added at every intensity
addsRings_always(intensity) == TRUE

\* if (intensity > 0.5) addRingCracks(intensity, crackPaths)
addsRings(intensity) == intensity > 50

\* faulty variant: one ring crack whatever the intensity
numRingsOf_single(intensity) == 1

\* Math.floor(1 + intensity * 2)
numRingsOf(intensity) == (100 + 2 * intensity) \div 100

\* the ring crack number `ring` (from 0) of addRingCracks
ringCrack(cv, ring, rRad, rStart, rArc, rJit) ==
  LET radius    == (cv.bowlRadius * (25 + 25 * ring) * (80 + 4 * rRad)) \div 10000
      arcStart  == rStart * 36
      arcLength == (PI * (30 + 5 * rArc)) \div 100
      pointAt(s) ==
        LET a == arcStart + Round(s * arcLength, 15)
            r == radius + Round(Sin(Round((6 * s + 15 * ring) * 57296, 15000)) * 8, 1000)
                   + Round((rJit - 5) * 6, 10)
        IN Point(cv.centerX + Round(Cos(a) * r, 1000),
                 cv.centerY + Round(Sin(a) * r, 1000))
  IN [ createCrackPath(cv.centerX + Round(Cos(arcStart) * radius, 1000),
                       cv.centerY + Round(Sin(arcStart) * radius, 1000),
                       arcStart + 90,
                       Round(radius * (30 + 5 * rArc) * 314, 10000), 1)
       EXCEPT !.points = [s \in 1..16 |-> pointAt(s - 1)],
              !.finished = TRUE ]

(***************************************************************************)
(* Whole calls of the fracture module, as the main loop makes them: d is   *)
(* the record of the random values drawn during the call                   *)
(***************************************************************************)
RECURSIVE growEach(_, _, _, _, _, _, _)
\* the rest of the loop once growCrackStep has returned `one` for crack k
growNext(cv, one, all, k, grew, intensity, d) ==
  growEach(cv, one.cracks, all, k + 1, grew \/ one.grew, intensity, d)

\* for (const crack of allCracks) growCrackStep(crack, intensity), from the
\* k-th crack of the list on; grew says whether a call has returned true
growEach(cv, arena, all, k, grew, intensity, d) ==
  IF k > Len(all) THEN [cracks |-> arena, grew |-> grew]
  ELSE growNext(cv, growCrackStep(cv, arena, all[k], intensity, d.step,
                                  d.heading, d.branch, d.side, d.defl, d.frac),
                all, k, grew, intensity, d)

RECURSIVE growthPasses(_, _, _, _, _, _)
\* the remaining n rounds of the step loop of growTensionCracks
growthPasses(cv, arena, list, n, intensity, d) ==
  IF n = 0 THEN arena
  ELSE growthPasses(cv, growEach(cv, arena, collectAllCracks(arena, list), 1, FALSE,
                                 intensity, d).cracks,
                    list, n - 1, intensity, d)

\* initializeTensionCracks(x, y, numCracks), into an empty arena
initializeTensionCracks(cv, x, y, numCracks, d) ==
  [ cracks     |-> [k \in 1..numCracks |->
                      tensionCrack(cv, x, y, k - 1, numCracks, d.jitter, d.len)],
    crackPaths |-> [k \in 1..numCracks |-> k] ]

\* the end of growTensionCracks, once the step loop has left the arena
\* `grown`: a further crack may be pushed
injectCrack(cv, grown, list, intensity, x, y, d) ==
  IF Len(list) < targetCracksOf(intensity) /\ injectDraw(d.inject, intensity)
  THEN [ cracks     |-> Append(grown, injectedCrack(cv, x, y, intensity, d.ring)),
         crackPaths |-> Append(list, Len(grown) + 1) ]
  ELSE [ cracks |-> grown, crackPaths |-> list ]

\* growTensionCracks(crackPaths, intensity, x, y)
growTensionCracks(cv, arena, list, intensity, x, y, d) ==
  IF list = << >>
  THEN initializeTensionCracks(cv, x, y, tensionCrackCount(intensity), d)
  ELSE injectCrack(cv, growthPasses(cv, arena, list, growthRateOf(intensity),
                                    intensity, d),
                   list, intensity, x, y, d)

RECURSIVE finalizeLoop(_, _, _, _, _, _)
\* if (!anyGrew) break, after the round `round` of the loop of finalizeCracks
finalizeNext(cv, round, list, done, intensity, d) ==
  IF ~round.grew THEN round.cracks
  ELSE finalizeLoop(cv, round.cracks, list, done + 1, intensity, d)

\* the while loop of finalizeCracks, done rounds done
finalizeLoop(cv, arena, list, done, intensity, d) ==
  IF ~(done < MaxIterations) THEN arena
  ELSE finalizeNext(cv, growEach(cv, arena, collectAllCracks(arena, list), 1, FALSE,
                                 intensity, d),
                    list, done, intensity, d)

\* finalizeCracks(crackPaths, intensity): the list is the one it was given
finalizeCracks(cv, arena, list, intensity, d) ==
  [ cracks |-> finalizeLoop(cv, arena, list, 0, intensity, d), crackPaths |-> list ]

RECURSIVE addRingCracks(_, _, _, _, _, _)
\* the loop of addRingCracks(intensity, crackPaths), from ring number `ring`
addRingCracks(cv, arena, list, ring, intensity, d) ==
  IF ~(ring < numRingsOf(intensity)) THEN [cracks |-> arena, crackPaths |-> list]
  ELSE addRingCracks(cv, Append(arena, ringCrack(cv, ring, d.ring, d.ring, d.ring, d.jitter)),
                     Append(list, Len(arena) + 1), ring + 1, intensity, d)

\* the largest integer whose square is not above n
Isqrt(n) == CHOOSE r \in 0..2000 : r * r <= n /\ (r + 1) * (r + 1) > n

\* the fields createFragmentsFromCrackGeometry adds to a fragment to set it
\* moving: vx and vy in 1/1000 px per frame, rotation in 1/1000 rad
launched(cv, f, impactX, impactY, intensity, d) ==
  LET impactDist      == Isqrt((f.x - impactX) * (f.x - impactX)
                                 + (f.y - impactY) * (f.y - impactY))
      impactInfluence == Max(300, 1000 - (impactDist * 10000) \div (12 * cv.bowlRadius))
      outwardAngle    == Atan2(f.y - cv.centerY, f.x - cv.centerX)
      speed           == ((20 + 3 * d.speed) * intensity * impactInfluence) \div 1000
  IN [ vertices |-> f.vertices, x |-> f.x, y |-> f.y,
       originX |-> f.originX, originY |-> f.originY,
       vx |-> Round(Cos(outwardAngle) * speed * 8, 10000) + (d.kick - 5) * 150,
       vy |-> Round(Sin(outwardAngle) * speed * 8, 10000) + (d.kick - 5) * 150,
       rotation |-> 0,
       rotationVel |-> Round((d.spin - 5) * 15 * intensity, 100) ]

\* a record of flattenCrackPaths as the gold module keeps it
pathRecord(crack) ==
  [ points |-> getSmoothedPoints(crack.points, 4), rawPoints |-> crack.points,
    depth |-> crack.depth, progress |-> 0, flowProgress |-> 0 ]

\* the return value of createFracture, from what lines 157 to 160 computed
\* on the crack list `ringed`; threw says the fragment builder threw
fractureReturn(cv, ringed, allPaths, seams, made, impactX, impactY, intensity, d) ==
  [ threw     |-> made.threw,
    fragments |-> [k \in DOMAIN made.fragments |->
                     launched(cv, made.fragments[k], impactX, impactY, intensity, d)],
    paths     |-> allPaths,
    seams     |-> seams,
    pools     |-> findIntersections(seams),
    cracks    |-> ringed.cracks,
    crackPaths |-> ringed.crackPaths ]

\* lines 157 to 162 of createFracture, on the crack list with its rings
fractureOfCracks(cv, ringed, impactX, impactY, intensity, d) ==
  LET all      == collectAllCracks(ringed.cracks, ringed.crackPaths)
      allPaths == [k \in 1..Len(all) |-> pathRecord(ringed.cracks[all[k]])]
  IN fractureReturn(cv, ringed, allPaths, pathsToSeams(allPaths),
                    createFragmentsFromCrackGeometry(cv, ringed.cracks, ringed.crackPaths,
                                                     Round((d.rim - 5) * 4, 10)),
                    impactX, impactY, intensity, d)

\* if (intensity > 0.5) addRingCracks(intensity, crackPaths)
ringsAdded(cv, finalized, intensity, d) ==
  IF addsRings(intensity)
  THEN addRingCracks(cv, finalized.cracks, finalized.crackPaths, 0, intensity, d)
  ELSE finalized

\* createFracture(impactX, impactY, intensity, existingCracks): what it
\* returns, whether it threw, and the crack list it worked on
createFracture(cv, arena, existingCracks, impactX, impactY, intensity, d) ==
  LET fresh == initializeTensionCracks(cv, impactX, impactY,
                                       fractureCrackCount(intensity), d)
  IN fractureOfCracks(
       cv,
       ringsAdded(cv,
                  IF existingCracks # << >>
                  THEN finalizeCracks(cv, arena, existingCracks, intensity, d)
                  ELSE finalizeCracks(cv, fresh.cracks, fresh.crackPaths, intensity, d),
                  intensity, d),
       impactX, impactY, intensity, d)

(***************************************************************************)
(* Bounds of the model                                                     *)
(***************************************************************************)
\* largest number of cracks kept in the arena
MaxCracks == 12

\* largest number of createFracture calls in one behaviour
MaxCalls == 2

\* largest number of growTensionCracks calls in one behaviour
MaxTicks == 3

\* the test's vessel centre
TestCenter == [x |-> 200, y |-> 200]

\* the values the random source yields for each use: every step 15 px
\* long and straight, a branch wherever one may start
TameRng ==
  [ step |-> {9}, heading |-> {0}, branch |-> {0, 9}, side |-> {9},
    defl |-> {5}, frac |-> {9}, jitter |-> {5}, len |-> {0},
    ring |-> {5}, rim |-> {5}, inject |-> {9},
    speed |-> {5}, kick |-> {9}, spin |-> {9} ]

\* every step the shortest (6 px), no branch
ShortRng == [TameRng EXCEPT !.step = {0}, !.branch = {9}]

\* steps of 6 px and of 15 px, no branch
AnyStepRng == [TameRng EXCEPT !.step = {0, 9}, !.branch = {9}]

\* branches of the smallest budget at every chance
BranchyRng == [TameRng EXCEPT !.branch = {0}, !.frac = {0}]

\* no branch, and a new primary crack at every growTensionCracks call
EagerRng == [TameRng EXCEPT !.branch = {9}, !.inject = {0}]

\* the shortest steps, and a new primary crack of heading 0 at every
\* growTensionCracks call
TwinRng == [ShortRng EXCEPT !.inject = {0}, !.ring = {0}]

\* a branch of the largest budget wherever one may start
ForkRng == [TameRng EXCEPT !.branch = {0}]

\* the runs of createFracture, growTensionCracks and finalizeCracks that are
\* explored: the vessel of the module's own test struck at its centre, a
\* strike in the band between 0.95 R and R next to the rim, a strike of
\* negative intensity, a strike strong enough for ring cracks, a strike
\* 3 px from the centre of a very small vessel, and a hold of intensity
\* 0.5, the threshold of the ring cracks, whose cracks all branch
Scenarios ==
  { [ name |-> "test", bowlRadius |-> 100, impactX |-> 200, impactY |-> 200,
      intensities |-> {10, 20}, rng |-> TameRng ],
    [ name |-> "rim", bowlRadius |-> 400, impactX |-> 599, impactY |-> 200,
      intensities |-> {0}, rng |-> AnyStepRng ],
    [ name |-> "sparse", bowlRadius |-> 100, impactX |-> 299, impactY |-> 200,
      intensities |-> {10}, rng |-> BranchyRng ],
    [ name |-> "void", bowlRadius |-> 100, impactX |-> 200, impactY |-> 200,
      intensities |-> {-100}, rng |-> TameRng ],
    [ name |-> "rings", bowlRadius |-> 100, impactX |-> 200, impactY |-> 200,
      intensities |-> {60}, rng |-> EagerRng ],
    [ name |-> "tiny", bowlRadius |-> 20, impactX |-> 197, impactY |-> 200,
      intensities |-> {10}, rng |-> TwinRng ],
    [ name |-> "hold", bowlRadius |-> 100, impactX |-> 200, impactY |-> 200,
      intensities |-> {50}, rng |-> ForkRng ] }

(***************************************************************************)
(* State                                                                   *)
(***************************************************************************)
NoCall == [intensity |-> 0, fragments |-> 0, returned |-> FALSE, made |-> FALSE,
           fresh |-> FALSE]

\* the part of the state that belongs to no running operation
Quiet ==
  /\ pc = "idle"
  /\ op = "none"
  /\ args = [impactX |-> 0, impactY |-> 0, intensity |-> 0, existing |-> FALSE]
  /\ numWanted = 0
  /\ initI = 0
  /\ iterations = 0
  /\ anyGrew = FALSE
  /\ allCracks = << >>
  /\ cursor = 0
  /\ pass = 0
  /\ ringI = 0

\* no crack list handed over, no pure function called
NoGiven == [cracks |-> << >>, crackPaths |-> << >>]

NoProbe == [fn |-> "none"]

\* RATE_LIMIT of route.ts
RATE_LIMIT == [maxRequests |-> 10, windowMs |-> 60000]

\* the x-forwarded-for headers of the requests: the entries between the
\* commas, trimmed; << >> is a request without the header
Headers == { << >>, << "10.0.0.1" >>, << "10.0.0.1", "10.0.0.9" >> }

\* getRateLimitKey(request): the first entry of x-forwarded-for, or "unknown"
getRateLimitKey(forwarded) ==
  IF forwarded = << >> THEN "unknown" ELSE Head(forwarded)

ClientKeys == {getRateLimitKey(h) : h \in Headers}

\* rateLimitMap.get(key) of a key that has no record
NoRecord == [present |-> FALSE, count |-> 0, resetTime |-> 0]

\* new Map(): no client has a record, no request has been served
ServerInit ==
  /\ rateLimitMap = [k \in ClientKeys |-> NoRecord]
  /\ served = [k \in ClientKeys |-> [opened |-> FALSE, since |-> 0, allowed |-> 0]]

\* faulty variant: the window is already over at its reset time
startsWindow_atReset(record, t) == ~record.present \/ t >= record.resetTime

\* !record || now > record.resetTime
startsWindow(record, t) == ~record.present \/ t > record.resetTime

\* checkRateLimit(key) at Date.now() = t: the map afterwards and the result
checkRateLimit(map, key, t) ==
  IF startsWindow(map[key], t)
  THEN [ map |-> [map EXCEPT ![key] = [present |-> TRUE, count |-> 1,
                                       resetTime |-> t + RATE_LIMIT.windowMs]],
         allowed |-> TRUE, remaining |-> RATE_LIMIT.maxRequests - 1,
         resetIn |-> RATE_LIMIT.windowMs ]
  ELSE IF map[key].count >= RATE_LIMIT.maxRequests
  THEN [ map |-> map, allowed |-> FALSE, remaining |-> 0,
         resetIn |-> map[key].resetTime - t ]
  ELSE [ map |-> [map EXCEPT ![key].count = @ + 1],
         allowed |-> TRUE,
         remaining |-> RATE_LIMIT.maxRequests - (map[key].count + 1),
         resetIn |-> map[key].resetTime - t ]

\* the initial value of the state object of state.js
LoopInit ==
  /\ current = "whole"
  /\ timer = 0
  /\ now = 0
  /\ isHolding = FALSE
  /\ holdStart = 0
  /\ holdTime = 0
  /\ breakPoint = [x |-> 0, y |-> 0]
  /\ breakCount = 0
  /\ pendingPaths = << >>
  /\ pendingSeams = << >>
  /\ pendingPools = << >>
  /\ goldPaths = << >>
  /\ goldSeams = << >>
  /\ goldPools = << >>
  /\ holds = 0
  /\ born = << >>
  /\ lastUpdate = [state |-> "whole", calls |-> << >>]
  /\ pressIgnored = FALSE
  /\ running = TRUE

\* the main loop is not running and no pure function has been called
Untouched ==
  /\ given = NoGiven
  /\ probe = NoProbe
  /\ LoopInit
  /\ ServerInit

Init ==
  \E s \in Scenarios :
    /\ canvas = [centerX |-> TestCenter.x, centerY |-> TestCenter.y,
                 bowlRadius |-> s.bowlRadius]
    /\ rng = s.rng
    /\ input = [impactX |-> s.impactX, impactY |-> s.impactY,
                intensities |-> s.intensities]
    /\ cracks = << >>
    /\ crackPaths = << >>
    /\ growCalls = << >>
    /\ lastGrew = [crack |-> 0, grew |-> FALSE, wasFinished |-> FALSE]
    /\ fragments = << >>
    /\ paths = << >>
    /\ prev = NoCall
    /\ calls = 0
    /\ ticks = 0
    /\ lastOp = "none"
    /\ Quiet
    /\ Untouched

\* the call counters after a growCrackStep call on crack c that leaves the
\* arena `after`: calls are counted while the crack is unfinished
countCall(arena, after, c) ==
  [j \in 1..Len(after) |->
     IF j > Len(arena) THEN 0
     ELSE IF j = c /\ ~arena[c].finished THEN growCalls[j] + 1
     ELSE growCalls[j]]

\* growCrackStep(crack, intensity) on crack c, with drawn random values
Grow(c, intensity) ==
  \E rStep \in rng.step, dTheta \in rng.heading, rBranch \in rng.branch,
     rSide \in rng.side, rDefl \in rng.defl, rFrac \in rng.frac :
    LET res == growCrackStep(canvas, cracks, c, intensity,
                             rStep, dTheta, rBranch, rSide, rDefl, rFrac)
    IN /\ Len(res.cracks) <= MaxCracks
       /\ cracks' = res.cracks
       /\ growCalls' = countCall(cracks, res.cracks, c)
       /\ lastGrew' = [crack |-> c, grew |-> res.grew, wasFinished |-> cracks[c].finished]

(***************************************************************************)
(* createFracture                                                          *)
(***************************************************************************)
\* entry of finalizeCracks
EnterFinalize ==
  /\ pc' = "finalize"
  /\ iterations' = 0
  /\ anyGrew' = FALSE
  /\ allCracks' = << >>
  /\ cursor' = 0

\* entry of initializeTensionCracks(x, y, n)
EnterInit(n) ==
  /\ pc' = "init"
  /\ numWanted' = n
  /\ initI' = 0
  /\ cracks' = << >>
  /\ crackPaths' = << >>
  /\ growCalls' = << >>

\* createFracture(impactX, impactY, intensity, existingCracks): existingCracks
\* is the crack list grown during the hold, or null
CallCreateFracture ==
  /\ pc = "idle"
  /\ calls < MaxCalls
  /\ \E intensity \in input.intensities, existing \in BOOLEAN :
       /\ existing => (crackPaths # << >> /\ calls = 0)
       /\ prev.made => prev.intensity < intensity
       /\ op' = "createFracture"
       /\ args' = [impactX |-> input.impactX, impactY |-> input.impactY,
                   intensity |-> intensity, existing |-> existing]
       /\ fragments' = << >>
       /\ paths' = << >>
       /\ given' = IF existing
                   THEN [cracks |-> cracks, crackPaths |-> crackPaths]
                   ELSE NoGiven
       /\ IF existing
          THEN /\ EnterFinalize
               /\ UNCHANGED <<cracks, crackPaths, growCalls, numWanted, initI>>
          ELSE /\ EnterInit(fractureCrackCount(intensity))
               /\ UNCHANGED <<iterations, anyGrew, allCracks, cursor>>
  /\ UNCHANGED <<canvas, rng, input, lastGrew, pass, ringI, prev, calls, ticks, lastOp>>
  /\ UNCHANGED <<probe, loopVars, serverVars>>

\* one round of the loop of initializeTensionCracks
InitCrack ==
  /\ pc = "init"
  /\ initI < numWanted
  /\ Len(cracks) < MaxCracks
  /\ \E rJit \in rng.jitter, rLen \in rng.len :
       cracks' = Append(cracks, tensionCrack(canvas, args.impactX, args.impactY,
                                             initI, numWanted, rJit, rLen))
  /\ crackPaths' = Append(crackPaths, Len(cracks) + 1)
  /\ growCalls' = Append(growCalls, 0)
  /\ initI' = initI + 1
  /\ UNCHANGED <<canvas, rng, input, lastGrew, pc, op, args, numWanted, iterations,
                 anyGrew, allCracks, cursor, pass, ringI, fragments, paths, prev, calls,
                 ticks, lastOp>>
  /\ UNCHANGED <<given, probe, loopVars, serverVars>>

\* the end of operation: back to the caller
ReturnToCaller ==
  /\ pc' = "idle"
  /\ op' = "none"
  /\ lastOp' = op
  /\ args' = [impactX |-> 0, impactY |-> 0, intensity |-> 0, existing |-> FALSE]
  /\ numWanted' = 0
  /\ initI' = 0
  /\ iterations' = 0
  /\ anyGrew' = FALSE
  /\ allCracks' = << >>
  /\ cursor' = 0
  /\ pass' = 0
  /\ ringI' = 0

\* initializeTensionCracks returns: createFracture goes on to finalizeCracks,
\* growTensionCracks returns the new cracks
InitReturn ==
  /\ pc = "init"
  /\ initI >= numWanted
  /\ IF op = "createFracture"
     THEN /\ EnterFinalize
          /\ UNCHANGED <<op, args, numWanted, initI, pass, ringI, ticks, lastOp>>
     ELSE /\ ReturnToCaller
          /\ ticks' = ticks + 1
  /\ UNCHANGED <<canvas, rng, input, cracks, crackPaths, growCalls, lastGrew,
                 fragments, paths, prev, calls>>
  /\ UNCHANGED <<given, probe, loopVars, serverVars>>

\* finalizeCracks returns: to createFracture, or to the host
LeaveFinalize ==
  IF op = "createFracture"
  THEN /\ pc' = "rings"
       /\ ringI' = 0
       /\ cursor' = 0
       /\ iterations' = 0
       /\ UNCHANGED <<op, args, numWanted, initI, anyGrew, allCracks, pass, lastOp>>
  ELSE /\ ReturnToCaller

\* while (iterations++ < 500) { const allCracks = collectAllCracks(crackPaths); ...
FinalizePass ==
  /\ pc = "finalize"
  /\ cursor = 0
  /\ IF iterations < MaxIterations
     THEN /\ iterations' = iterations + 1
          /\ allCracks' = collectAllCracks(cracks, crackPaths)
          /\ anyGrew' = FALSE
          /\ cursor' = 1
          /\ UNCHANGED <<pc, op, args, numWanted, initI, pass, ringI, lastOp>>
     ELSE LeaveFinalize
  /\ UNCHANGED <<canvas, rng, input, cracks, crackPaths, growCalls, lastGrew,
                 fragments, paths, prev, calls, ticks>>
  /\ UNCHANGED <<given, probe, loopVars, serverVars>>

\* for (const crack of allCracks) if (growCrackStep(crack, intensity)) anyGrew = true
FinalizeGrow ==
  /\ pc = "finalize"
  /\ cursor >= 1
  /\ cursor <= Len(allCracks)
  /\ Grow(allCracks[cursor], args.intensity)
  /\ anyGrew' = (anyGrew \/ lastGrew'.grew)
  /\ cursor' = cursor + 1
  /\ UNCHANGED <<canvas, rng, input, crackPaths, pc, op, args, numWanted, initI,
                 iterations, allCracks, pass, ringI, fragments, paths, prev, calls,
                 ticks, lastOp>>
  /\ UNCHANGED <<given, probe, loopVars, serverVars>>

\* if (!anyGrew) break
FinalizeEnd ==
  /\ pc = "finalize"
  /\ cursor > Len(allCracks)
  /\ IF anyGrew
     THEN /\ cursor' = 0
          /\ UNCHANGED <<pc, op, args, numWanted, initI, iterations, anyGrew,
                         allCracks, pass, ringI, lastOp>>
     ELSE LeaveFinalize
  /\ UNCHANGED <<canvas, rng, input, cracks, crackPaths, growCalls, lastGrew,
                 fragments, paths, prev, calls, ticks>>
  /\ UNCHANGED <<given, probe, loopVars, serverVars>>

\* one round of the loop of addRingCracks
AddRing ==
  /\ pc = "rings"
  /\ addsRings(args.intensity)
  /\ ringI < numRingsOf(args.intensity)
  /\ Len(cracks) < MaxCracks
  /\ \E rRad \in rng.ring, rStart \in rng.ring, rArc \in rng.ring, rJit \in rng.jitter :
       cracks' = Append(cracks, ringCrack(canvas, ringI, rRad, rStart, rArc, rJit))
  /\ crackPaths' = Append(crackPaths, Len(cracks) + 1)
  /\ growCalls' = Append(growCalls, 0)
  /\ ringI' = ringI + 1
  /\ UNCHANGED <<canvas, rng, input, lastGrew, pc, op, args, numWanted, initI, iterations,
                 anyGrew, allCracks, cursor, pass, fragments, paths, prev, calls, ticks, lastOp>>
  /\ UNCHANGED <<given, probe, loopVars, serverVars>>

\* flattenCrackPaths and createFragmentsFromCrackGeometry; createFracture
\* returns, or the TypeError of the wedge loop leaves it
Derive ==
  /\ pc = "rings"
  /\ ~(addsRings(args.intensity) /\ ringI < numRingsOf(args.intensity))
  /\ \E rRim \in rng.rim :
       LET res == createFragmentsFromCrackGeometry(canvas, cracks, crackPaths,
                                                   Round((rRim - 5) * 4, 10))
       IN /\ pc' = IF res.threw THEN "threw" ELSE "done"
          /\ fragments' = res.fragments
          /\ paths' = IF res.threw THEN << >> ELSE flattenCrackPaths(cracks, crackPaths)
  /\ UNCHANGED <<canvas, rng, input, cracks, crackPaths, growCalls, lastGrew, op,
                 args, numWanted, initI, iterations, anyGrew, allCracks, cursor, pass, ringI,
                 prev, calls, ticks, lastOp>>
  /\ UNCHANGED <<given, probe, loopVars, serverVars>>

\* the caller takes the result (or the exception) of createFracture
Return ==
  /\ pc \in {"done", "threw"}
  /\ prev' = [intensity |-> args.intensity, fragments |-> Len(fragments),
              returned |-> (pc = "done"), made |-> TRUE,
              fresh |-> ~args.existing]
  /\ calls' = calls + 1
  /\ ReturnToCaller
  /\ UNCHANGED <<canvas, rng, input, cracks, crackPaths, growCalls, lastGrew,
                 fragments, paths, ticks>>
  /\ given' = NoGiven
  /\ UNCHANGED <<probe, loopVars, serverVars>>

(***************************************************************************)
(* growTensionCracks and finalizeCracks, called by the host                *)
(***************************************************************************)
\* growTensionCracks(crackPaths, intensity, x, y), called during the hold
CallGrowTensionCracks ==
  /\ pc = "idle"
  /\ ticks < MaxTicks
  /\ \E intensity \in input.intensities :
       /\ op' = "growTensionCracks"
       /\ args' = [impactX |-> input.impactX, impactY |-> input.impactY,
                   intensity |-> intensity, existing |-> TRUE]
       /\ IF crackPaths = << >>
          THEN /\ EnterInit(tensionCrackCount(intensity))
               /\ UNCHANGED <<allCracks, cursor, pass>>
          ELSE /\ pc' = "tension"
               /\ pass' = 0
               /\ allCracks' = collectAllCracks(cracks, crackPaths)
               /\ cursor' = 1
               /\ UNCHANGED <<cracks, crackPaths, growCalls, numWanted, initI>>
  /\ given' = [cracks |-> cracks, crackPaths |-> crackPaths]
  /\ UNCHANGED <<canvas, rng, input, lastGrew, iterations, anyGrew, ringI, fragments,
                 paths, prev, calls, ticks, lastOp>>
  /\ UNCHANGED <<probe, loopVars, serverVars>>

\* for (const crack of allCracks) growCrackStep(crack, intensity)
TensionGrow ==
  /\ pc = "tension"
  /\ pass < growthRateOf(args.intensity)
  /\ cursor <= Len(allCracks)
  /\ Grow(allCracks[cursor], args.intensity)
  /\ cursor' = cursor + 1
  /\ UNCHANGED <<canvas, rng, input, crackPaths, pc, op, args, numWanted, initI,
                 iterations, anyGrew, allCracks, pass, ringI, fragments, paths, prev,
                 calls, ticks, lastOp>>
  /\ UNCHANGED <<given, probe, loopVars, serverVars>>

\* allCracks.length = 0; collectAllCracks(crackPaths, allCracks); step++
TensionPass ==
  /\ pc = "tension"
  /\ pass < growthRateOf(args.intensity)
  /\ cursor > Len(allCracks)
  /\ pass' = pass + 1
  /\ allCracks' = collectAllCracks(cracks, crackPaths)
  /\ cursor' = 1
  /\ UNCHANGED <<canvas, rng, input, cracks, crackPaths, growCalls, lastGrew, pc, op,
                 args, numWanted, initI, iterations, anyGrew, ringI, fragments, paths,
                 prev, calls, ticks, lastOp>>
  /\ UNCHANGED <<given, probe, loopVars, serverVars>>

\* the new primary crack that may be added, and the return
TensionInject ==
  /\ pc = "tension"
  /\ pass >= growthRateOf(args.intensity)
  /\ \E rInj \in rng.inject, rAng \in rng.ring :
       IF Len(crackPaths) < targetCracksOf(args.intensity)
            /\ injectDraw(rInj, args.intensity)
            /\ Len(cracks) < MaxCracks
       THEN /\ cracks' = Append(cracks, injectedCrack(canvas, args.impactX,
                                                      args.impactY, args.intensity, rAng))
            /\ crackPaths' = Append(crackPaths, Len(cracks) + 1)
            /\ growCalls' = Append(growCalls, 0)
       ELSE UNCHANGED <<cracks, crackPaths, growCalls>>
  /\ ReturnToCaller
  /\ ticks' = ticks + 1
  /\ given' = NoGiven
  /\ UNCHANGED <<canvas, rng, input, lastGrew, fragments, paths, prev, calls>>
  /\ UNCHANGED <<probe, loopVars, serverVars>>

\* finalizeCracks(crackPaths, intensity), called on the cracks of the hold
CallFinalizeCracks ==
  /\ pc = "idle"
  /\ calls = 0
  /\ crackPaths # << >>
  /\ \E c \in 1..Len(cracks) : ~cracks[c].finished
  /\ \E intensity \in input.intensities :
       args' = [impactX |-> input.impactX, impactY |-> input.impactY,
                intensity |-> intensity, existing |-> TRUE]
  /\ op' = "finalizeCracks"
  /\ EnterFinalize
  /\ UNCHANGED <<canvas, rng, input, cracks, crackPaths, growCalls, lastGrew,
                 numWanted, initI, pass, ringI, fragments, paths, prev, calls, ticks, lastOp>>
  /\ UNCHANGED <<given, probe, loopVars, serverVars>>

Next ==
  \/ CallCreateFracture
  \/ InitCrack
  \/ InitReturn
  \/ FinalizePass
  \/ FinalizeGrow
  \/ FinalizeEnd
  \/ AddRing
  \/ Derive
  \/ Return
  \/ CallGrowTensionCracks
  \/ TensionGrow
  \/ TensionPass
  \/ TensionInject
  \/ CallFinalizeCracks

Spec == Init /\ [][Next]_vars

(***************************************************************************)
(* SpecGrow: one crack tree, grown by growCrackStep calls made in any      *)
(* order on any crack of the tree, finished or not                         *)
(***************************************************************************)
\* the random values of the growth runs
GrowRng ==
  [ step |-> {0, 9}, heading |-> {0}, branch |-> {0, 9}, side |-> {9},
    defl |-> {5}, frac |-> {0, 9}, jitter |-> {5}, len |-> {0},
    ring |-> {5}, rim |-> {5}, inject |-> {9} ]

\* a crack as createCrackPath returns it, with the vessel it lives in:
\* primary cracks (depth 0) of a small vessel, and branches of depth 1..3
\* of a large vessel, whose budgets are what branchMaxLength yields there
GrowSeeds ==
  { [bowlRadius |-> 60,  depth |-> 0, maxLength |-> 36, dx |-> 0,  angle |-> 0],
    [bowlRadius |-> 60,  depth |-> 0, maxLength |-> 38, dx |-> 40, angle |-> 0],
    [bowlRadius |-> 300, depth |-> 1, maxLength |-> 45, dx |-> 31, angle |-> 40],
    [bowlRadius |-> 300, depth |-> 2, maxLength |-> 38, dx |-> 31, angle |-> 300],
    [bowlRadius |-> 300, depth |-> 3, maxLength |-> 38, dx |-> 270, angle |-> 90],
    [bowlRadius |-> 300, depth |-> 3, maxLength |-> 11, dx |-> 31, angle |-> 180] }

InitGrow ==
  \E s \in GrowSeeds :
    /\ canvas = [centerX |-> TestCenter.x, centerY |-> TestCenter.y,
                 bowlRadius |-> s.bowlRadius]
    /\ rng = GrowRng
    /\ input = [impactX |-> TestCenter.x + s.dx, impactY |-> TestCenter.y,
                intensities |-> {100}]
    /\ cracks = << createCrackPath(TestCenter.x + s.dx, TestCenter.y,
                                   s.angle, s.maxLength, s.depth) >>
    /\ crackPaths = << 1 >>
    /\ growCalls = << 0 >>
    /\ lastGrew = [crack |-> 0, grew |-> FALSE, wasFinished |-> FALSE]
    /\ fragments = << >>
    /\ paths = << >>
    /\ prev = NoCall
    /\ calls = 0
    /\ ticks = 0
    /\ lastOp = "none"
    /\ Quiet
    /\ Untouched

\* growCrackStep(crack, intensity) on any crack of the tree
GrowStep ==
  /\ pc = "idle"
  /\ \E c \in 1..Len(cracks), intensity \in input.intensities : Grow(c, intensity)
  /\ UNCHANGED <<canvas, rng, input, crackPaths, pc, op, args, numWanted, initI,
                 iterations, anyGrew, allCracks, cursor, pass, ringI, fragments,
                 paths, prev, calls, ticks, lastOp>>
  /\ UNCHANGED <<given, probe, loopVars, serverVars>>

NextGrow == GrowStep

SpecGrow == InitGrow /\ [][NextGrow]_vars

(***************************************************************************)
(* SpecCap: finalizeCracks on the cracks of a hold in a very large vessel, *)
(* struck far from the centre, where one crack is still growing after 500  *)
(* passes                                                                  *)
(***************************************************************************)
\* the shortest steps, the longest budgets, no branch
CapRng == [ShortRng EXCEPT !.len = {9}]

\* the vessel radius and the distance of the impact point from the centre
CapRadius == 3200

CapDistance == 3000

\* the state after the first growTensionCracks call of the hold, which
\* returns the cracks of initializeTensionCracks
InitCap ==
  /\ canvas = [centerX |-> TestCenter.x, centerY |-> TestCenter.y,
               bowlRadius |-> CapRadius]
  /\ rng = CapRng
  /\ input = [impactX |-> TestCenter.x - CapDistance, impactY |-> TestCenter.y,
              intensities |-> {0}]
  /\ cracks = [k \in 1..tensionCrackCount(0) |->
                 tensionCrack(canvas, input.impactX, input.impactY, k - 1,
                              tensionCrackCount(0), 5, 9)]
  /\ crackPaths = [k \in 1..tensionCrackCount(0) |-> k]
  /\ growCalls = [k \in 1..tensionCrackCount(0) |-> 0]
  /\ lastGrew = [crack |-> 0, grew |-> FALSE, wasFinished |-> FALSE]
  /\ fragments = << >>
  /\ paths = << >>
  /\ prev = NoCall
  /\ calls = 0
  /\ ticks = 1
  /\ lastOp = "growTensionCracks"
  /\ Quiet
  /\ Untouched

NextCap ==
  \/ CallFinalizeCracks
  \/ FinalizePass
  \/ FinalizeGrow
  \/ FinalizeEnd

SpecCap == InitCap /\ [][NextCap]_vars

(***************************************************************************)
(* SpecSmooth: getSmoothedPoints applied to point lists of every length up *)
(* to MaxPoints, at the two resolutions its callers use                    *)
(***************************************************************************)
\* the fracture module at rest in the test vessel: no crack, no call
NoFracture ==
  /\ canvas = [centerX |-> TestCenter.x, centerY |-> TestCenter.y, bowlRadius |-> 100]
  /\ rng = TameRng
  /\ input = [impactX |-> TestCenter.x, impactY |-> TestCenter.y, intensities |-> {10}]
  /\ cracks = << >>
  /\ crackPaths = << >>
  /\ growCalls = << >>
  /\ lastGrew = [crack |-> 0, grew |-> FALSE, wasFinished |-> FALSE]
  /\ fragments = << >>
  /\ paths = << >>
  /\ prev = NoCall
  /\ calls = 0
  /\ ticks = 0
  /\ lastOp = "none"
  /\ Quiet
  /\ given = NoGiven

\* nothing of the fracture module changes
FractureUnchanged ==
  UNCHANGED <<canvas, rng, input, cracks, crackPaths, growCalls, lastGrew, pc, op,
              args, numWanted, initI, iterations, anyGrew, allCracks, cursor, pass,
              ringI, fragments, paths, prev, calls, ticks, lastOp, given>>

\* the longest point list
MaxPoints == 4

\* the control points the lists are made of
SmoothPoints == {Point(200, 200), Point(215, 200), Point(215, 212)}

\* all sequences over S of length 0..n
SeqsUpTo(S, n) == UNION {[1..k -> S] : k \in 0..n}

\* the resolutions of the callers: flattenCrackPaths (the default 4) and
\* createFragmentsFromCrackGeometry (3)
Resolutions == {3, 4}

InitSmooth ==
  /\ NoFracture
  /\ LoopInit
  /\ ServerInit
  /\ \E pts \in SeqsUpTo(SmoothPoints, MaxPoints), resolution \in Resolutions :
       probe = [fn |-> "getSmoothedPoints", pts |-> pts, resolution |-> resolution,
                called |-> FALSE, result |-> << >>]

\* the call getSmoothedPoints({points: pts}, resolution)
Smooth ==
  /\ probe.fn = "getSmoothedPoints"
  /\ ~probe.called
  /\ probe' = [probe EXCEPT !.called = TRUE,
                            !.result = getSmoothedPoints(probe.pts, probe.resolution)]
  /\ FractureUnchanged
  /\ UNCHANGED <<loopVars, serverVars>>

NextSmooth == Smooth

SpecSmooth == InitSmooth /\ [][NextSmooth]_vars

(***************************************************************************)
(* SpecIntersect: lineIntersection applied to pairs of segments            *)
(***************************************************************************)
\* the largest coordinate of a segment end
MaxCoord == 10

\* the coordinates of the ends of the second segment
SegCoords == {-5, 0, 1, 2, 5, MaxCoord}

Seam(x1, y1, x2, y2) == [x1 |-> x1, y1 |-> y1, x2 |-> x2, y2 |-> y2]

\* the first segments: a diagonal, an axis-parallel one, one of length zero
FirstSeams ==
  { Seam(0, 0, 10, 10), Seam(0, 0, 10, 0), Seam(0, 5, 10, 5), Seam(5, 5, 5, 5) }

InitIntersect ==
  /\ NoFracture
  /\ LoopInit
  /\ ServerInit
  /\ \E s1 \in FirstSeams, x3 \in SegCoords, y3 \in SegCoords,
        x4 \in SegCoords, y4 \in SegCoords :
       probe = [fn |-> "lineIntersection", s1 |-> s1, s2 |-> Seam(x3, y3, x4, y4),
                called |-> FALSE, result |-> Null]

\* the call lineIntersection(s1, s2)
Intersect ==
  /\ probe.fn = "lineIntersection"
  /\ ~probe.called
  /\ probe' = [probe EXCEPT !.called = TRUE,
                            !.result = lineIntersection(probe.s1, probe.s2)]
  /\ FractureUnchanged
  /\ UNCHANGED <<loopVars, serverVars>>

NextIntersect == Intersect

SpecIntersect == InitIntersect /\ [][NextIntersect]_vars

(***************************************************************************)
(* SpecPools: pathsToSeams and findIntersections applied to two paths, one *)
(* of three points and one of two, over a small grid                       *)
(***************************************************************************)
\* the coordinates of the points of the two paths
PoolCoords == {0, 5, MaxCoord}

PoolPoints == {[x |-> x, y |-> y] : x \in PoolCoords, y \in PoolCoords}

InitPools ==
  /\ NoFracture
  /\ LoopInit
  /\ ServerInit
  /\ \E p1 \in PoolPoints, p2 \in PoolPoints, p3 \in PoolPoints,
        q1 \in PoolPoints, q2 \in PoolPoints :
       probe = [fn |-> "findIntersections",
                paths |-> << [points |-> <<p1, p2, p3>>], [points |-> <<q1, q2>>] >>,
                called |-> FALSE, seams |-> << >>, result |-> << >>]

\* seams = pathsToSeams(paths); pools = findIntersections(seams)
Pools ==
  /\ probe.fn = "findIntersections"
  /\ ~probe.called
  /\ \E seams \in {pathsToSeams(probe.paths)} :
       probe' = [probe EXCEPT !.called = TRUE,
                              !.seams = seams,
                              !.result = findIntersections(seams)]
  /\ FractureUnchanged
  /\ UNCHANGED <<loopVars, serverVars>>

NextPools == Pools

SpecPools == InitPools /\ [][NextPools]_vars

(***************************************************************************)
(* SpecSectors: the fragment loop of createFragmentsFromCrackGeometry on   *)
(* boundaries whose crack points may be infinite or NaN, as JavaScript     *)
(* numbers can be.  Numbers are records here: a finite integer, an         *)
(* infinity with its sign, or NaN.                                         *)
(***************************************************************************)
Fin(n) == [kind |-> "fin", v |-> n]

NaN == [kind |-> "nan", v |-> 0]

PosInf == [kind |-> "inf", v |-> 1]

NegInf == [kind |-> "inf", v |-> -1]

isFinite(a) == a.kind = "fin"

\* a + b
fadd(a, b) ==
  IF a.kind = "nan" \/ b.kind = "nan" THEN NaN
  ELSE IF a.kind = "inf" THEN (IF b.kind = "inf" /\ b.v # a.v THEN NaN ELSE a)
  ELSE IF b.kind = "inf" THEN b
  ELSE Fin(a.v + b.v)

\* a - b
fsub(a, b) == fadd(a, [b EXCEPT !.v = -b.v])

\* a * b
fmul(a, b) ==
  IF a.kind = "nan" \/ b.kind = "nan" THEN NaN
  ELSE IF a.kind = "fin" /\ b.kind = "fin" THEN Fin(a.v * b.v)
  ELSE IF a.v = 0 \/ b.v = 0 THEN NaN
  ELSE IF (a.v > 0) = (b.v > 0) THEN PosInf ELSE NegInf

\* a / n for a count n > 0, a finite quotient rounded to the pixel
fdiv(a, n) == IF a.kind = "fin" THEN Fin(Round(a.v, n)) ELSE a

\* Math.abs(a)
fabs(a) == [a EXCEPT !.v = Abs(a.v)]

\* a < b; false when either is NaN
flt(a, b) ==
  IF a.kind = "nan" \/ b.kind = "nan" THEN FALSE
  ELSE IF a.kind = "inf" THEN a.v < 0 /\ ~(b.kind = "inf" /\ b.v < 0)
  ELSE IF b.kind = "inf" THEN b.v > 0
  ELSE a.v < b.v

RECURSIVE fsum(_)
\* the sum of a sequence of numbers, added from the left
fsum(s) == IF s = << >> THEN Fin(0) ELSE fadd(fsum(SubSeq(s, 1, Len(s) - 1)), s[Len(s)])

\* the vertex average of a boundary
centroidOf(boundary) ==
  [ x |-> fdiv(fsum([j \in 1..Len(boundary) |-> boundary[j].x]), Len(boundary)),
    y |-> fdiv(fsum([j \in 1..Len(boundary) |-> boundary[j].y]), Len(boundary)) ]

\* twice the signed area the loop adds up
areaSum(boundary) ==
  LET n == Len(boundary)
  IN fsum([j \in 1..n |->
             fsub(fmul(boundary[j].x, boundary[(j % n) + 1].y),
                  fmul(boundary[(j % n) + 1].x, boundary[j].y))])

\* the loop body reaches fragments.push: neither continue is taken
pushesBoundary(boundary) ==
  /\ ~(Len(boundary) < 3)
  /\ ~flt(fabs(areaSum(boundary)), Fin(200))

\* the fragment the loop pushes for sector i
pushedFragment(boundary, i) ==
  LET c == centroidOf(boundary)
  IN [ vertices |-> [j \in 1..Len(boundary) |->
                       [x |-> fsub(boundary[j].x, c.x), y |-> fsub(boundary[j].y, c.y)]],
       x |-> c.x, y |-> c.y, originX |-> c.x, originY |-> c.y,
       sector |-> i ]

RECURSIVE sectorFragments(_, _)
\* the fragments the loop pushes for the boundaries of the sectors i, i + 1, ...
sectorFragments(boundaries, i) ==
  IF i > Len(boundaries) THEN << >>
  ELSE (IF pushesBoundary(boundaries[i])
        THEN << pushedFragment(boundaries[i], i) >>
        ELSE << >>)
       \o sectorFragments(boundaries, i + 1)

\* the number of sectors of a run
MaxSectors == 2

FPoint(x, y) == [x |-> x, y |-> y]

\* the smoothed points of a crack that pass the filter hypot > 5:
\* Math.hypot is Infinity when one argument is infinite, also when the
\* other is NaN
EdgePoints(dx, dy) ==
  { << >>,
    << FPoint(Fin(200 + 15 * dx), Fin(200 + 15 * dy)),
       FPoint(Fin(200 + 30 * dx), Fin(200 + 30 * dy)) >>,
    << FPoint(Fin(200 + 15 * dx), Fin(200 + 15 * dy)), FPoint(PosInf, Fin(200)) >>,
    << FPoint(Fin(200 + 15 * dx), Fin(200 + 15 * dy)), FPoint(NegInf, Fin(200)) >>,
    << FPoint(Fin(200 + 15 * dx), Fin(200 + 15 * dy)), FPoint(PosInf, NaN) >> }

\* a boundary as buildFragmentBoundary lays it out: the centre, the points
\* of the first crack, one rim point, the points of the second crack backwards
boundaryOf(e1, e2) ==
  << FPoint(Fin(TestCenter.x), Fin(TestCenter.y)) >> \o e1
    \o << FPoint(Fin(270), Fin(270)) >> \o Reverse(e2)

SectorBoundaries == {boundaryOf(e1, e2) : e1 \in EdgePoints(1, 0), e2 \in EdgePoints(0, 1)}

InitSectors ==
  /\ NoFracture
  /\ LoopInit
  /\ ServerInit
  /\ \E bs \in [1..MaxSectors -> SectorBoundaries] :
       probe = [fn |-> "createFragmentsFromCrackGeometry", boundaries |-> bs,
                called |-> FALSE, result |-> << >>]

\* the loop over the sectors runs
MakeFragments ==
  /\ probe.fn = "createFragmentsFromCrackGeometry"
  /\ ~probe.called
  /\ probe' = [probe EXCEPT !.called = TRUE,
                            !.result = sectorFragments(probe.boundaries, 1)]
  /\ FractureUnchanged
  /\ UNCHANGED <<loopVars, serverVars>>

NextSectors == MakeFragments

SpecSectors == InitSectors /\ [][NextSectors]_vars

(***************************************************************************)
(* SpecLoop: the main loop.  The handlers of the input module and the      *)
(* frames of animate() run one at a time, each to its end.  Times are in   *)
(* ms, progress values in 1/1000, intensity in 1/100.  isHovering,         *)
(* breathPhase, the particles and the sounds do not act on the rest of the *)
(* state and are left out.                                                 *)
(***************************************************************************)
\* TIMING of config.js
TIMING ==
  [maxHoldTime |-> 2500, pauseDuration |-> 2800, mendDuration |-> 16000,
   settleTimeout |-> 2500]

\* PHYSICS of config.js: gravity in 1/1000 px per frame, the factors in 1/100
PHYSICS == [gravity |-> 25, friction |-> 96, bounce |-> 40, boundaryMultiplier |-> 130]

\* the time between two frames: short during a hold, longer while the
\* fragments fly, long otherwise
ShortFrame == 250

ScatterFrame == 1500

LongFrame == 6000

FrameTimes(cur) ==
  IF cur = "tension" THEN {ShortFrame}
  ELSE IF cur = "shattered" THEN {ScatterFrame}
  ELSE {LongFrame}

\* the clock stops the loop at MaxTime; the user starts at most MaxHolds holds
MaxTime == 56000

MaxHolds == 2

\* the user lets go at most MaxHold ms after the press
MaxHold == 250

\* where the user presses, and where the pointer moves to during a hold
PressPoints == {Point(230, 200)}

MovePoints == {Point(200, 200)}

\* the random values of the main loop: long straight steps, no branch
LoopRng == [TameRng EXCEPT !.branch = {9}]

\* the records of random values a call may draw
DrawsOf(r) ==
  [step : r.step, heading : r.heading, branch : r.branch, side : r.side,
   defl : r.defl, frac : r.frac, jitter : r.jitter, len : r.len, ring : r.ring,
   rim : r.rim, inject : r.inject, speed : r.speed, kick : r.kick, spin : r.spin]

\* holdIntensity(maxHoldTime): Math.min(1, 0.4 + (holdTime / maxHoldTime) * 0.6)
holdIntensity(held, maxHoldTime) == Min(100, 40 + (held * 60) \div maxHoldTime)

\* faulty variant: a press is taken in every state
acceptsHold_always(cur) == TRUE

\* handleHoldStart: if (state.state.current !== States.WHOLE) return
acceptsHold(cur) == cur = "whole"

\* faulty variant: the cracks also grow while the fragments fly
updateCalls_alsoShattered(cur, holding) ==
  IF cur \in {"tension", "shattered"}
  THEN IF holding THEN << "growTensionCracks" >>
       ELSE << "growTensionCracks", "createFracture" >>
  ELSE << >>

\* the calls of the fracture module one update() makes, in order
updateCalls(cur, holding) ==
  IF cur = "tension"
  THEN IF holding THEN << "growTensionCracks" >>
       ELSE << "growTensionCracks", "createFracture" >>
  ELSE << >>

RECURSIVE runCalls(_, _, _, _, _, _)
\* the crack list of the hold after growTensionCracks has returned `grown`
afterGrowth(st, grown) ==
  [st EXCEPT !.cracks = grown.cracks, !.crackPaths = grown.crackPaths]

\* the crack list of the hold after createFracture has returned `result`
afterFracture(result) ==
  [cracks |-> result.cracks, crackPaths |-> result.crackPaths,
   broke |-> TRUE, result |-> result]

\* the calls made one after the other on the crack list of the hold: st is
\* the crack list so far and what createFracture returned, if it was called
runCalls(ops, cv, st, bp, intensity, d) ==
  IF ops = << >> THEN st
  ELSE IF Head(ops) = "growTensionCracks"
  THEN runCalls(Tail(ops), cv,
                afterGrowth(st, growTensionCracks(cv, st.cracks, st.crackPaths,
                                                  intensity, bp.x, bp.y, d)),
                bp, intensity, d)
  ELSE runCalls(Tail(ops), cv,
                afterFracture(createFracture(cv, st.cracks, st.crackPaths, bp.x, bp.y,
                                             intensity, d)),
                bp, intensity, d)

\* one fragment after a frame of updateFragments
movedFragment(cv, f) ==
  LET boundary == (cv.bowlRadius * PHYSICS.boundaryMultiplier) \div 100
      vy1      == f.vy + PHYSICS.gravity
      x1       == f.x + Round(f.vx, 1000)
      y1       == f.y + Round(vy1, 1000)
      vx2      == Round(f.vx * PHYSICS.friction, 100)
      vy2      == Round(vy1 * PHYSICS.friction, 100)
      outside  == (x1 - cv.centerX) * (x1 - cv.centerX)
                    + (y1 - cv.centerY) * (y1 - cv.centerY) > boundary * boundary
      angle    == Atan2(y1 - cv.centerY, x1 - cv.centerX)
  IN [f EXCEPT !.x = IF outside THEN cv.centerX + Round(Cos(angle) * boundary, 1000)
                     ELSE x1,
               !.y = IF outside THEN cv.centerY + Round(Sin(angle) * boundary, 1000)
                     ELSE y1,
               !.vx = IF outside THEN Round(-vx2 * PHYSICS.bounce, 100) ELSE vx2,
               !.vy = IF outside THEN Round(-vy2 * PHYSICS.bounce, 100) ELSE vy2,
               !.rotation = f.rotation + f.rotationVel,
               !.rotationVel = Round(f.rotationVel * 97, 100)]

\* updateFragments(fragments): the fragments after the frame, and whether
\* all of them have settled
updateFragments(cv, fs) ==
  LET moved == [k \in 1..Len(fs) |-> movedFragment(cv, fs[k])]
  IN [ fragments |-> moved,
       settled   |-> \A k \in 1..Len(moved) :
                       ~(Abs(moved[k].vx) > 150 \/ Abs(moved[k].vy) > 150) ]

\* faulty variant: the home position is moved to where the fragment lies
updateMending_movesOrigin(fs) ==
  [k \in 1..Len(fs) |->
     [fs[k] EXCEPT !.originX = fs[k].x,
                   !.originY = fs[k].y,
                   !.rotation = Round(fs[k].rotation * 94, 100)]]

\* updateMending(fragments, progress)
updateMending(fs) ==
  [k \in 1..Len(fs) |->
     [fs[k] EXCEPT !.x = fs[k].x + Round((fs[k].originX - fs[k].x) * 6, 100),
                   !.y = fs[k].y + Round((fs[k].originY - fs[k].y) * 6, 100),
                   !.rotation = Round(fs[k].rotation * 94, 100)]]

\* updatePathFlow(paths, progress) and updateSeamFlow(seams, progress)
updatePathFlow(ps, progress) ==
  [k \in 1..Len(ps) |->
     IF progress > 150
     THEN [ps[k] EXCEPT !.flowProgress = Min(1000, ((progress - 150) * 1200) \div 700),
                        !.progress = Min(1000, ((progress - 150) * 1200) \div 700)]
     ELSE ps[k]]

\* updatePoolFlow(pools, progress)
updatePoolFlow(pools, progress) ==
  [k \in 1..Len(pools) |->
     IF progress > 300
     THEN [pools[k] EXCEPT !.progress = Min(1000, ((progress - 300) * 1000) \div 500)]
     ELSE pools[k]]

\* faulty variant: the crack list of the break is kept
commitGold_keepsCracks(st) ==
  [ st EXCEPT
      !.goldPaths = @ \o [k \in 1..Len(st.pendingPaths) |->
                            [st.pendingPaths[k] EXCEPT !.progress = 1000,
                                                       !.flowProgress = 1000]],
      !.goldSeams = @ \o [k \in 1..Len(st.pendingSeams) |->
                            [st.pendingSeams[k] EXCEPT !.progress = 1000,
                                                       !.flowProgress = 1000]],
      !.goldPools = @ \o [k \in 1..Len(st.pendingPools) |->
                            [st.pendingPools[k] EXCEPT !.progress = 1000]],
      !.pendingPaths = << >>, !.pendingSeams = << >>, !.pendingPools = << >>,
      !.fragments = << >> ]

\* faulty variant: the gold of the break replaces the gold of earlier breaks
commitGold_replacesGold(st) ==
  [ st EXCEPT
      !.goldPaths = [k \in 1..Len(st.pendingPaths) |->
                       [st.pendingPaths[k] EXCEPT !.progress = 1000,
                                                  !.flowProgress = 1000]],
      !.goldSeams = [k \in 1..Len(st.pendingSeams) |->
                       [st.pendingSeams[k] EXCEPT !.progress = 1000,
                                                  !.flowProgress = 1000]],
      !.goldPools = [k \in 1..Len(st.pendingPools) |->
                       [st.pendingPools[k] EXCEPT !.progress = 1000]],
      !.pendingPaths = << >>, !.pendingSeams = << >>, !.pendingPools = << >>,
      !.cracks = << >>, !.crackPaths = << >>, !.fragments = << >> ]

\* commitGold(), on the lists of the state object
commitGold(st) ==
  [ st EXCEPT
      !.goldPaths = @ \o [k \in 1..Len(st.pendingPaths) |->
                            [st.pendingPaths[k] EXCEPT !.progress = 1000,
                                                       !.flowProgress = 1000]],
      !.goldSeams = @ \o [k \in 1..Len(st.pendingSeams) |->
                            [st.pendingSeams[k] EXCEPT !.progress = 1000,
                                                       !.flowProgress = 1000]],
      !.goldPools = @ \o [k \in 1..Len(st.pendingPools) |->
                            [st.pendingPools[k] EXCEPT !.progress = 1000]],
      !.pendingPaths = << >>, !.pendingSeams = << >>, !.pendingPools = << >>,
      !.cracks = << >>, !.crackPaths = << >>, !.fragments = << >> ]

\* the hold number of every crack of the arena after a step: a crack that
\* was there keeps its number, a new one gets the number of the running hold
bornAfter(arena) ==
  [c \in 1..Len(arena) |-> IF c <= Len(born) THEN born[c] ELSE holds]

\* what the main loop leaves alone in the fracture module
HostUnchanged ==
  UNCHANGED <<canvas, rng, input, growCalls, lastGrew, pc, op, args, numWanted, initI,
              iterations, anyGrew, allCracks, cursor, pass, ringI, paths, prev, calls,
              ticks, lastOp, given, probe, serverVars>>

InitLoop ==
  /\ canvas = [centerX |-> TestCenter.x, centerY |-> TestCenter.y, bowlRadius |-> 100]
  /\ rng = LoopRng
  /\ input = [impactX |-> TestCenter.x, impactY |-> TestCenter.y, intensities |-> {40}]
  /\ cracks = << >>
  /\ crackPaths = << >>
  /\ growCalls = << >>
  /\ lastGrew = [crack |-> 0, grew |-> FALSE, wasFinished |-> FALSE]
  /\ fragments = << >>
  /\ paths = << >>
  /\ prev = NoCall
  /\ calls = 0
  /\ ticks = 0
  /\ lastOp = "none"
  /\ Quiet
  /\ Untouched

\* handleHoldStart(x, y), with startHold and transition(TENSION)
HoldStart ==
  /\ \E pt \in PressPoints :
       IF acceptsHold(current)
       THEN /\ holds < MaxHolds
            /\ isHolding' = TRUE
            /\ holdStart' = now
            /\ holdTime' = 0
            /\ breakPoint' = pt
            /\ cracks' = << >>
            /\ crackPaths' = << >>
            /\ born' = << >>
            /\ holds' = holds + 1
            /\ current' = "tension"
            /\ timer' = now
            /\ pressIgnored' = FALSE
       ELSE /\ pressIgnored' = TRUE
            /\ UNCHANGED <<isHolding, holdStart, holdTime, breakPoint, cracks, crackPaths,
                           born, holds, current, timer>>
  /\ UNCHANGED <<lastUpdate, now, breakCount, fragments, pendingPaths, pendingSeams, pendingPools,
                 goldPaths, goldSeams, goldPools, running>>
  /\ HostUnchanged

\* handleHoldEnd(), with endHold
HoldEnd ==
  /\ isHolding' = FALSE
  /\ pressIgnored' = FALSE
  /\ UNCHANGED <<lastUpdate, current, timer, now, holdStart, holdTime, breakPoint, breakCount,
                 cracks, crackPaths, fragments, pendingPaths, pendingSeams, pendingPools,
                 goldPaths, goldSeams, goldPools, holds, born, running>>
  /\ HostUnchanged

\* handleHoldMove(x, y), for a pointer that moves to one of pts
handleHoldMove(pts) ==
  /\ \E pt \in pts :
       breakPoint' = IF current = "tension" /\ isHolding THEN pt ELSE breakPoint
  /\ pressIgnored' = FALSE
  /\ UNCHANGED <<lastUpdate, current, timer, now, isHolding, holdStart, holdTime, breakCount,
                 cracks, crackPaths, fragments, pendingPaths, pendingSeams, pendingPools,
                 goldPaths, goldSeams, goldPools, holds, born, running>>
  /\ HostUnchanged

HoldMove == handleHoldMove(MovePoints)

\* reset() of state.js, which the program itself never calls: a caller may
\* reset once the holds of the user are used up
Reset ==
  /\ holds = MaxHolds
  /\ pressIgnored' = FALSE
  /\ current' = "whole"
  /\ timer' = 0
  /\ isHolding' = FALSE
  /\ holdStart' = 0
  /\ holdTime' = 0
  /\ breakPoint' = [x |-> 0, y |-> 0]
  /\ fragments' = << >>
  /\ cracks' = << >>
  /\ crackPaths' = << >>
  /\ born' = << >>
  /\ pendingPaths' = << >>
  /\ pendingSeams' = << >>
  /\ pendingPools' = << >>
  /\ UNCHANGED <<lastUpdate, now, breakCount, goldPaths, goldSeams, goldPools, holds, running>>
  /\ HostUnchanged

\* one frame: update() as animate() calls it, dt ms after the last event.
\* The clock stops the frames at `limit`: in every state if capped, and
\* otherwise only while the vessel is whole
update(capped, limit) ==
  /\ running
  /\ \E dt \in FrameTimes(current), d \in DrawsOf(rng) :
       /\ (capped \/ current = "whole") => now + dt <= limit
       /\ (current = "tension" /\ isHolding) => now + dt - holdStart <= MaxHold
       /\ now' = now + dt
       /\ LET held      == IF current = "tension" THEN now' - holdStart ELSE holdTime
              intensity == holdIntensity(held, TIMING.maxHoldTime)
              ops       == updateCalls(current, isHolding)
              elapsed   == now' - timer
          IN
          \E out \in {runCalls(ops, canvas,
                               [cracks |-> cracks, crackPaths |-> crackPaths,
                                broke |-> FALSE],
                               breakPoint, intensity, d)} :
          /\ holdTime' = held
          /\ lastUpdate' = [state |-> current, calls |-> ops]
          /\ CASE out.broke ->
                    \* the release frame: createFracture was called
                    /\ cracks' = out.cracks
                    /\ crackPaths' = out.crackPaths
                    /\ IF out.result.threw
                       THEN /\ running' = FALSE
                            /\ UNCHANGED <<fragments, pendingPaths, pendingSeams,
                                           pendingPools, breakCount, current, timer>>
                       ELSE /\ fragments' = out.result.fragments
                            /\ pendingPaths' = out.result.paths
                            /\ pendingSeams' = out.result.seams
                            /\ pendingPools' = out.result.pools
                            /\ breakCount' = breakCount + 1
                            /\ current' = "shattered"
                            /\ timer' = now'
                            /\ UNCHANGED running
                    /\ UNCHANGED <<goldPaths, goldSeams, goldPools>>
               [] ~out.broke /\ current = "shattered" ->
                    LET flown == updateFragments(canvas, fragments)
                    IN /\ fragments' = flown.fragments
                       /\ IF flown.settled \/ elapsed > TIMING.settleTimeout
                          THEN current' = "pause" /\ timer' = now'
                          ELSE UNCHANGED <<current, timer>>
                       /\ cracks' = out.cracks
                       /\ crackPaths' = out.crackPaths
                       /\ UNCHANGED <<pendingPaths, pendingSeams, pendingPools, breakCount,
                                      goldPaths, goldSeams, goldPools, running>>
               [] ~out.broke /\ current = "pause" ->
                    /\ IF elapsed > TIMING.pauseDuration
                       THEN current' = "mending" /\ timer' = now'
                       ELSE UNCHANGED <<current, timer>>
                    /\ cracks' = out.cracks
                    /\ crackPaths' = out.crackPaths
                    /\ UNCHANGED <<fragments, pendingPaths, pendingSeams, pendingPools,
                                   breakCount, goldPaths, goldSeams, goldPools, running>>
               [] ~out.broke /\ current = "mending" ->
                    LET progress == Min(1000, (elapsed * 1000) \div TIMING.mendDuration)
                        flowing  ==
                          [ goldPaths |-> goldPaths, goldSeams |-> goldSeams,
                            goldPools |-> goldPools,
                            pendingPaths |-> updatePathFlow(pendingPaths, progress),
                            pendingSeams |-> updatePathFlow(pendingSeams, progress),
                            pendingPools |-> updatePoolFlow(pendingPools, progress),
                            cracks |-> out.cracks, crackPaths |-> out.crackPaths,
                            fragments |-> updateMending(fragments) ]
                        after    == IF progress >= 1000 THEN commitGold(flowing) ELSE flowing
                    IN /\ goldPaths' = after.goldPaths
                       /\ goldSeams' = after.goldSeams
                       /\ goldPools' = after.goldPools
                       /\ pendingPaths' = after.pendingPaths
                       /\ pendingSeams' = after.pendingSeams
                       /\ pendingPools' = after.pendingPools
                       /\ cracks' = after.cracks
                       /\ crackPaths' = after.crackPaths
                       /\ fragments' = after.fragments
                       /\ IF progress >= 1000
                          THEN current' = "whole" /\ timer' = now'
                          ELSE UNCHANGED <<current, timer>>
                       /\ UNCHANGED <<breakCount, running>>
               [] OTHER ->
                    \* WHOLE, and TENSION while the user holds
                    /\ cracks' = out.cracks
                    /\ crackPaths' = out.crackPaths
                    /\ UNCHANGED <<current, timer, fragments, pendingPaths, pendingSeams,
                                   pendingPools, breakCount, goldPaths, goldSeams,
                                   goldPools, running>>
  /\ born' = bornAfter(cracks')
  /\ pressIgnored' = FALSE
  /\ UNCHANGED <<isHolding, holdStart, breakPoint, holds>>
  /\ HostUnchanged

Update == update(TRUE, MaxTime)

NextLoop ==
  \/ HoldStart
  \/ HoldEnd
  \/ HoldMove
  \/ Reset
  \/ Update

SpecLoop == InitLoop /\ [][NextLoop]_vars

(***************************************************************************)
(* SpecCycle: the main loop on a canvas of 400 px, with a pointer that may *)
(* leave the bowl during the hold, and with every frame that animate() has *)
(* asked for delivered: a break, once begun, is not cut off by the clock   *)
(***************************************************************************)
\* the clock stops the frames of a whole vessel at IdleTime
IdleTime == 6000

\* resize() for a canvas of 400 px: centre at size / 2, bowlRadius = 0.36 size
CycleCanvas == [centerX |-> 200, centerY |-> 200, bowlRadius |-> 144]

\* where the pointer moves to during a hold: the centre of the bowl, and a
\* point of the canvas outside the bowl
DragPoints == {Point(200, 200), Point(390, 200)}

InitCycle ==
  /\ canvas = CycleCanvas
  /\ rng = LoopRng
  /\ input = [impactX |-> CycleCanvas.centerX, impactY |-> CycleCanvas.centerY,
              intensities |-> {40}]
  /\ cracks = << >>
  /\ crackPaths = << >>
  /\ growCalls = << >>
  /\ lastGrew = [crack |-> 0, grew |-> FALSE, wasFinished |-> FALSE]
  /\ fragments = << >>
  /\ paths = << >>
  /\ prev = NoCall
  /\ calls = 0
  /\ ticks = 0
  /\ lastOp = "none"
  /\ Quiet
  /\ Untouched

\* handleMouseMove / handleTouchMove: the pointer moves, inside the bowl or not
Drag == handleHoldMove(DragPoints)

\* a frame of animate(); the idle frames of a whole vessel end at IdleTime
Frame == update(FALSE, IdleTime)

NextCycle ==
  \/ HoldStart
  \/ HoldEnd
  \/ Drag
  \/ Frame

\* a frame as the clock shows it: update() changes Date.now(), the handlers
\* do not, and update() runs whenever the loop is scheduled and the clock
\* allows the frame
FrameTick ==
  /\ running
  /\ \E dt \in FrameTimes(current) :
       /\ current = "whole" => now + dt <= IdleTime
       /\ (current = "tension" /\ isHolding) => now + dt - holdStart <= MaxHold
       /\ now' = now + dt

\* requestAnimationFrame: the browser delivers every frame animate() asks for
SpecCycle == InitCycle /\ [][NextCycle]_vars /\ WF_now(FrameTick)

(***************************************************************************)
(* SpecRate: the rate limiter of the image-generation endpoint.  Requests  *)
(* of several clients arrive one at a time while the clock advances; what  *)
(* POST does after the rate limit check does not touch the limiter and is  *)
(* left out.                                                               *)
(***************************************************************************)
\* the clock advances by ClockStep, up to MaxClock
ClockStep == 30000

MaxClock == 90000

InitRate ==
  /\ NoFracture
  /\ LoopInit
  /\ ServerInit
  /\ probe = NoProbe

\* the requests let through in the window of 60 s that the request at time t
\* falls in, this request included if it is let through
servedAfter(was, t, allowed) ==
  IF ~was.opened \/ t > was.since + RATE_LIMIT.windowMs
  THEN [opened |-> TRUE, since |-> t, allowed |-> IF allowed THEN 1 ELSE 0]
  ELSE [was EXCEPT !.allowed = IF allowed THEN @ + 1 ELSE @]

\* POST(request): the rate limit check and the response it decides
POST ==
  /\ \E forwarded \in Headers :
       \E rateLimitKey \in {getRateLimitKey(forwarded)} :
         \E rateLimit \in {checkRateLimit(rateLimitMap, rateLimitKey, now)} :
           /\ rateLimitMap' = rateLimit.map
           /\ probe' = [fn |-> "POST", key |-> rateLimitKey,
                        status |-> IF rateLimit.allowed THEN 200 ELSE 429,
                        remaining |-> rateLimit.remaining,
                        resetIn |-> rateLimit.resetIn]
           /\ served' = [served EXCEPT ![rateLimitKey] =
                           servedAfter(@, now, rateLimit.allowed)]
  /\ FractureUnchanged
  /\ UNCHANGED loopVars

\* time passes between two requests
Tick ==
  /\ now + ClockStep <= MaxClock
  /\ now' = now + ClockStep
  /\ FractureUnchanged
  /\ UNCHANGED <<current, timer, isHolding, holdStart, holdTime, breakPoint,
                 breakCount, pendingPaths, pendingSeams, pendingPools, goldPaths,
                 goldSeams, goldPools, holds, born, lastUpdate, pressIgnored, running>>
  /\ UNCHANGED <<probe, serverVars>>

NextRate ==
  \/ POST
  \/ Tick

SpecRate == InitRate /\ [][NextRate]_vars

(***************************************************************************)
(* Properties of crack growth (SpecGrow)                                   *)
(***************************************************************************)
\* the branches of crack c
branchesOf(c) == {cracks[c].branches[k] : k \in 1..Len(cracks[c].branches)}

\* C5: growth of a crack ends within a bound that follows from its length
\* budget: every growCrackStep call on an unfinished crack adds at least
\* 6 px to currentLength, an unfinished crack is below its budget, and so a
\* crack that has taken maxLength / 6 calls (rounded up) is finished
C5_GrowthBounded ==
  \A c \in 1..Len(cracks) :
    /\ 6 * growCalls[c] <= cracks[c].currentLength
    /\ ~cracks[c].finished => cracks[c].currentLength < cracks[c].maxLength
    /\ 6 * growCalls[c] >= cracks[c].maxLength => cracks[c].finished

\* a crack that grew several times and was then finished by its budget
C5_Witness ==
  \E c \in 1..Len(cracks) :
    /\ cracks[c].finished
    /\ growCalls[c] >= 3
    /\ Len(cracks[c].points) >= 3
    /\ cracks[c].currentLength >= cracks[c].maxLength

\* C7: a branch has its parent's depth plus one, a crack of depth 3 has no
\* branches, and no crack is deeper than 3
C7_DepthLimit ==
  \A c \in 1..Len(cracks) :
    /\ cracks[c].depth <= 3
    /\ cracks[c].depth = 3 => cracks[c].branches = << >>
    /\ \A b \in branchesOf(c) : cracks[b].depth = cracks[c].depth + 1

\* a crack of depth 3 that has just grown past 30 px, where a shallower
\* crack may branch, and is still growing
C7_Witness ==
  \E c \in 1..Len(cracks) :
    /\ cracks[c].depth = 3
    /\ cracks[c].currentLength > 30
    /\ ~cracks[c].finished
    /\ lastGrew = [crack |-> c, grew |-> TRUE, wasFinished |-> FALSE]

\* C8: finished is absorbing, and growCrackStep on a finished crack changes
\* nothing in the tree and returns false
C8_FinishedAbsorbing ==
  [][ /\ \A c \in 1..Len(cracks) :
           cracks[c].finished => (c <= Len(cracks') /\ cracks'[c].finished)
      /\ cracks[lastGrew'.crack].finished =>
           (cracks' = cracks /\ lastGrew'.grew = FALSE) ]_vars

\* growCrackStep has been called on a crack that was finished, and that has
\* points and a branch the call could have touched
C8_Witness ==
  /\ lastGrew.crack >= 1
  /\ lastGrew.wasFinished
  /\ ~lastGrew.grew
  /\ Len(cracks[lastGrew.crack].points) >= 3
  /\ cracks[lastGrew.crack].branches # << >>

(***************************************************************************)
(* Properties of createFracture (Spec)                                     *)
(***************************************************************************)
\* the impact point lies strictly inside the vessel disc
impactInside ==
  (input.impactX - canvas.centerX) * (input.impactX - canvas.centerX)
    + (input.impactY - canvas.centerY) * (input.impactY - canvas.centerY)
    < canvas.bowlRadius * canvas.bowlRadius

\* the cracks createFragmentsFromCrackGeometry can use, their endings sorted
\* by angle, and the dividers after the wedge loop
usablePaths == collectPaths(cracks, crackPaths)

sortedEndpoints ==
  sortByAngle([k \in 1..Len(usablePaths) |-> endpointOf(canvas, usablePaths[k])])

dividers == ensureMinimumSectors(canvas, sortedEndpoints).endpoints

\* the angular extent of the rim arc of sector i
sectorArc(i) ==
  arcLengthOf(canvas, dividers[i].path, dividers[(i % Len(dividers)) + 1].path)

\* the places where the angle drops from one divider to the next, going
\* round once
descents ==
  {i \in 1..Len(dividers) :
     dividers[(i % Len(dividers)) + 1].angle < dividers[i].angle}

\* C1: for an intensity in [0,1] and an impact point inside the disc every
\* createFracture call returns, with a non-empty fragments list and a
\* non-empty paths list
C1_ReturnsFragments ==
  (pc \in {"done", "threw"} /\ args.intensity \in 0..100 /\ impactInside)
    => (pc = "done" /\ fragments # << >> /\ paths # << >>)

\* C2: createFracture never throws, whatever the impact point and intensity
C2_NeverFatal == pc # "threw"

\* C3: every record of the paths list createFracture returns has more than
\* one point, the records of branches included
C3_PathsHaveTwoPoints ==
  pc = "done" => \A k \in 1..Len(paths) : Len(paths[k].points) > 1

\* C4: of two createFracture calls at the same impact point, both on fresh
\* cracks, the one of higher intensity returns at least as many fragments
C4_MonotoneFragments ==
  (pc = "done" /\ ~args.existing /\ prev.made /\ prev.returned /\ prev.fresh
     /\ prev.intensity < args.intensity)
    => Len(fragments) >= prev.fragments

\* C9: every fragment createFracture returns has at least 3 vertices: no
\* boundary of fewer than 3 points becomes a fragment
C9_FragmentsHaveThreeVertices ==
  pc = "done" => \A k \in 1..Len(fragments) : Len(fragments[k].vertices) >= 3

\* createFracture has returned fragments after a sector whose boundary has
\* fewer than 3 points was met
C9_Witness ==
  /\ pc = "done"
  /\ fragments # << >>
  /\ \E i \in 1..Len(dividers) :
       Len(buildFragmentBoundary(canvas, dividers[i],
                                 dividers[(i % Len(dividers)) + 1], 0)) < 3

\* C10: with 1 to 4 usable cracks the dividers after the wedge loop are in
\* cyclic angular order and the rim arcs of the sectors sum to one full turn
C10_SparseWedgesPartition ==
  (pc = "done" /\ Len(usablePaths) \in 1..4)
    => /\ Cardinality(descents) <= 1
       /\ SumSeq([i \in 1..Len(dividers) |-> sectorArc(i)]) = 2 * PI

\* the set of elements of a sequence
Range(s) == {s[j] : j \in 1..Len(s)}

\* the vertices of a fragment in canvas coordinates
globalVertices(f) ==
  {Point(f.vertices[j].x + f.originX, f.vertices[j].y + f.originY) :
     j \in 1..Len(f.vertices)}

\* the points a usable crack contributes to the boundaries it is an edge of
edgeVertices(u) ==
  Range(SelectSeq(usablePaths[u].points, LAMBDA pt : awayFromCenter(canvas, pt)))

\* usable crack u is an edge of a returned fragment
usedAsEdge(u) ==
  /\ edgeVertices(u) # {}
  /\ \E k \in 1..Len(fragments) : edgeVertices(u) \subseteq globalVertices(fragments[k])

\* C11: for every crack that is an edge of a returned fragment, the vertices
\* it contributes to the fragment are points of the smoothed polyline of the
\* record the returned paths list holds for that crack
C11_EdgesOnReturnedPaths ==
  pc = "done" =>
    \A u \in 1..Len(usablePaths) :
      usedAsEdge(u) =>
        \E k \in 1..Len(paths) :
          /\ paths[k].rawPoints = usablePaths[u].raw
          /\ edgeVertices(u) \subseteq Range(paths[k].points)

\* C12: createFracture does not modify the existingCracks list it is given:
\* on return the list has the same top-level cracks, and every crack has the
\* points, the finished flag and the branches it had at the call
C12_ExistingCracksUntouched ==
  (pc = "done" /\ args.existing) =>
    /\ crackPaths = given.crackPaths
    /\ \A c \in 1..Len(given.cracks) :
         /\ cracks[c].points = given.cracks[c].points
         /\ cracks[c].finished = given.cracks[c].finished
         /\ cracks[c].branches = given.cracks[c].branches

\* a is an initial part of b
IsPrefix(a, b) == Len(a) <= Len(b) /\ SubSeq(b, 1, Len(a)) = a

\* C12 (amended): createFracture finalizes the existingCracks list in place:
\* on return every given crack has its old points as an initial part of its
\* points and its old branches as an initial part of its branches, a crack
\* given finished is unchanged, and the list itself has gained cracks only
\* when intensity > 0.5, the ring cracks pushed at its end
C12_ExistingCracksFinalizedInPlace ==
  (pc = "done" /\ args.existing) =>
    /\ IsPrefix(given.crackPaths, crackPaths)
    /\ args.intensity <= 50 => crackPaths = given.crackPaths
    /\ \A c \in 1..Len(given.cracks) :
         /\ IsPrefix(given.cracks[c].points, cracks[c].points)
         /\ IsPrefix(given.cracks[c].branches, cracks[c].branches)
         /\ given.cracks[c].finished => cracks[c] = given.cracks[c]

\* createFracture has returned after growing a crack it was given and
\* pushing ring cracks into the given list
C12_Witness ==
  /\ pc = "done"
  /\ args.existing
  /\ Len(crackPaths) > Len(given.crackPaths)
  /\ \E c \in 1..Len(given.cracks) :
       Len(cracks[c].points) > Len(given.cracks[c].points)

(***************************************************************************)
(* Properties of getSmoothedPoints (SpecSmooth)                            *)
(***************************************************************************)
\* C14: getSmoothedPoints returns a list of fewer than 3 points unchanged,
\* and for n >= 3 points returns exactly (n - 1) * resolution + 1 points,
\* more than n, at resolution 4 and at resolution 3
C14_SmoothedLength ==
  (probe.fn = "getSmoothedPoints" /\ probe.called) =>
    LET n == Len(probe.pts) IN
    /\ n < 3 => probe.result = probe.pts
    /\ n >= 3 => /\ Len(probe.result) = (n - 1) * probe.resolution + 1
                 /\ Len(probe.result) > n

\* getSmoothedPoints has returned for a list of 3 or more points that are
\* not all the same, sampled at resolution 3
C14_Witness ==
  /\ probe.fn = "getSmoothedPoints"
  /\ probe.called
  /\ Len(probe.pts) >= 3
  /\ probe.resolution = 3
  /\ \E a, b \in 1..Len(probe.pts) : probe.pts[a] # probe.pts[b]

(***************************************************************************)
(* Properties of lineIntersection (SpecIntersect)                          *)
(***************************************************************************)
\* the cross product of two plane vectors
cross(ax, ay, bx, by) == ax * by - ay * bx

\* the two segments of the call as vectors: d1 = B - A, d2 = D - C, w = C - A;
\* the lines cross where A + t d1 = C + u d2, that is at
\* t = (w x d2) / (d1 x d2) and u = (w x d1) / (d1 x d2)
crossD == cross(probe.s1.x2 - probe.s1.x1, probe.s1.y2 - probe.s1.y1,
                probe.s2.x2 - probe.s2.x1, probe.s2.y2 - probe.s2.y1)

crossT == cross(probe.s2.x1 - probe.s1.x1, probe.s2.y1 - probe.s1.y1,
                probe.s2.x2 - probe.s2.x1, probe.s2.y2 - probe.s2.y1)

crossU == cross(probe.s2.x1 - probe.s1.x1, probe.s2.y1 - probe.s1.y1,
                probe.s1.x2 - probe.s1.x1, probe.s1.y2 - probe.s1.y1)

\* n / d lies strictly between 0.1 and 0.9 (d # 0)
strictlyInside(n, d) ==
  IF d > 0 THEN d < 10 * n /\ 10 * n < 9 * d
  ELSE d > 10 * n /\ 10 * n > 9 * d

\* the segments are not parallel and cross strictly inside the middle 80%
\* of both
crossesInMiddle ==
  /\ crossD # 0
  /\ strictlyInside(crossT, crossD)
  /\ strictlyInside(crossU, crossD)

finiteCentroid(boundary) ==
  isFinite(centroidOf(boundary).x) /\ isFinite(centroidOf(boundary).y)

\* C13: a boundary whose vertex-average centroid is NaN or infinite yields
\* no fragment, every returned fragment has finite x, y, originX and
\* originY, and the other boundaries still yield their fragments
C13_DegenerateDropped ==
  (probe.fn = "createFragmentsFromCrackGeometry" /\ probe.called) =>
    /\ \A i \in 1..Len(probe.boundaries) :
         ~finiteCentroid(probe.boundaries[i])
           => \A k \in 1..Len(probe.result) : probe.result[k].sector # i
    /\ \A k \in 1..Len(probe.result) :
         /\ isFinite(probe.result[k].x) /\ isFinite(probe.result[k].y)
         /\ isFinite(probe.result[k].originX) /\ isFinite(probe.result[k].originY)
    /\ \A i \in 1..Len(probe.boundaries) :
         (finiteCentroid(probe.boundaries[i]) /\ pushesBoundary(probe.boundaries[i]))
           => \E k \in 1..Len(probe.result) : probe.result[k].sector = i

(***************************************************************************)
(* Properties of finalizeCracks (SpecCap)                                  *)
(***************************************************************************)
\* finalizeCracks has just returned: to the host, or to createFracture
finalizeReturned ==
  \/ pc = "idle" /\ lastOp = "finalizeCracks"
  \/ pc = "rings" /\ ringI = 0

\* C6: when finalizeCracks returns every crack of the list, branches
\* included, is finished, also when the 500-pass cap ended the loop
C6_AllFinishedOnReturn ==
  finalizeReturned => \A c \in 1..Len(cracks) : cracks[c].finished

(***************************************************************************)
(* Properties of the main loop (SpecLoop)                                  *)
(***************************************************************************)
\* the number of times name stands in the list of calls
timesCalled(name, called) == Cardinality({k \in 1..Len(called) : called[k] = name})

\* C16: an update() calls growTensionCracks at most once, and only when it
\* finds the state TENSION: in WHOLE, SHATTERED, PAUSE and MENDING it makes
\* no call of the fracture module; createFracture is called only on the
\* release frame, as the second call, after growTensionCracks has returned
\* the crack list it is given.  Handlers and frames run one at a time.
C16_GrowOncePerTickInTension ==
  /\ timesCalled("growTensionCracks", lastUpdate.calls) <= 1
  /\ lastUpdate.state # "tension" => lastUpdate.calls = << >>
  /\ \A k \in 1..Len(lastUpdate.calls) :
       lastUpdate.calls[k] = "createFracture"
         => k = 2 /\ lastUpdate.calls[1] = "growTensionCracks"

\* the release frame has run: the cracks grew, then the vessel broke
C16_Witness ==
  /\ lastUpdate = [state |-> "tension",
                   calls |-> << "growTensionCracks", "createFracture" >>]
  /\ current = "shattered"
  /\ fragments # << >>

\* C17: every crack in the crack list of the state was created during the
\* running hold, the one the last startHold began; the list is empty
\* whenever the state is WHOLE, so no crack of an earlier break is grown or
\* handed to createFracture again.
C17_NoCrackLeak ==
  /\ Len(born) = Len(cracks)
  /\ \A c \in 1..Len(born) : born[c] = holds
  /\ current = "whole" => cracks = << >> /\ crackPaths = << >>

\* the cracks of the second hold grow over the gold of the first break
C17_Witness ==
  /\ holds = 2
  /\ current = "tension"
  /\ crackPaths # << >>
  /\ goldPaths # << >>
  /\ lastUpdate.calls = << "growTensionCracks" >>

\* the boundary of a fragment has its centroid at the home position
homeIsCentroid(f) ==
  LET n == Len(f.vertices)
  IN /\ 2 * Abs(SumSeq([j \in 1..n |-> f.vertices[j].x])) <= n
     /\ 2 * Abs(SumSeq([j \in 1..n |-> f.vertices[j].y])) <= n

\* C18: the fragments of a break are created at their home position, the
\* centroid of the boundary (x = originX, y = originY); a step that moves
\* the fragments of a break (updateFragments, updateMending) changes
\* neither originX, originY nor the local vertices of any of them.
C18_HomeFixed ==
  [][ fragments' # fragments =>
        IF fragments = << >>
        THEN \A k \in 1..Len(fragments') :
               /\ fragments'[k].x = fragments'[k].originX
               /\ fragments'[k].y = fragments'[k].originY
               /\ homeIsCentroid(fragments'[k])
        ELSE \/ fragments' = << >>
             \/ /\ Len(fragments') = Len(fragments)
                /\ \A k \in 1..Len(fragments) :
                     /\ fragments'[k].originX = fragments[k].originX
                     /\ fragments'[k].originY = fragments[k].originY
                     /\ fragments'[k].vertices = fragments[k].vertices ]_vars

\* a fragment away from home is on its way back during mending
C18_Witness ==
  /\ current = "mending"
  /\ lastUpdate.state = "mending"
  /\ \E k \in 1..Len(fragments) :
       fragments[k].x # fragments[k].originX \/ fragments[k].y # fragments[k].originY

\* C19: a press that arrives in TENSION, SHATTERED, PAUSE or MENDING
\* changes neither the state, the break point, the hold flag and timers nor
\* the crack list; the state becomes TENSION only from WHOLE, by a press
\* that starts a hold.
C19_PressOnlyInWhole ==
  [][ /\ (HoldStart /\ current # "whole")
        => UNCHANGED <<current, timer, breakPoint, isHolding, holdStart, holdTime,
                       cracks, crackPaths, fragments, holds>>
      /\ (current' = "tension" /\ current # "tension")
        => /\ current = "whole"
           /\ holds' = holds + 1
           /\ isHolding'
           /\ breakPoint' \in PressPoints ]_vars

\* a press was dropped during mending
C19_Witness ==
  /\ pressIgnored
  /\ current = "mending"
  /\ ~isHolding
  /\ holds < MaxHolds

\* C20: the gold lists only grow, each step keeping what they held.  The
\* frame that completes the mending appends every pending path, seam and
\* pool of the break, with progress 1 (and flowProgress 1 for paths and
\* seams), and empties the pending lists, the fragments and the crack list.
C20_GoldOnlyAccumulates ==
  [][ /\ IsPrefix(goldPaths, goldPaths')
      /\ IsPrefix(goldSeams, goldSeams')
      /\ IsPrefix(goldPools, goldPools')
      /\ (current = "mending" /\ current' = "whole" /\ now' # now)
           => /\ goldPaths' = goldPaths \o
                    [k \in 1..Len(pendingPaths) |->
                       [pendingPaths[k] EXCEPT !.progress = 1000, !.flowProgress = 1000]]
              /\ goldSeams' = goldSeams \o
                    [k \in 1..Len(pendingSeams) |->
                       [pendingSeams[k] EXCEPT !.progress = 1000, !.flowProgress = 1000]]
              /\ goldPools' = goldPools \o
                    [k \in 1..Len(pendingPools) |->
                       [pendingPools[k] EXCEPT !.progress = 1000]]
              /\ pendingPaths' = << >>
              /\ pendingSeams' = << >>
              /\ pendingPools' = << >>
              /\ fragments' = << >>
              /\ cracks' = << >>
              /\ crackPaths' = << >> ]_vars

\* the second mending has been committed on top of the gold of the first
C20_Witness ==
  /\ breakCount = 2
  /\ current = "whole"
  /\ lastUpdate.state = "mending"
  /\ Len(goldPaths) > 5
  /\ goldSeams # << >>
  /\ goldPools # << >>
  /\ pendingPaths = << >>


(***************************************************************************)
(* Properties of growTensionCracks (Spec)                                  *)
(***************************************************************************)
\* C21: a growTensionCracks call with an intensity in [0,1] on a non-empty
\* crack list returns with every crack that was unfinished at the call,
\* top-level or branch, either finished or of strictly larger
\* currentLength; on an empty list it returns floor(4 + 4 * intensity)
\* cracks, each with its start point only and currentLength 0
C21_TensionCallProgress ==
  [][ (op = "growTensionCracks" /\ pc' = "idle" /\ args.intensity \in 0..100) =>
        IF given.crackPaths # << >>
        THEN \A c \in 1..Len(given.cracks) :
               ~given.cracks[c].finished =>
                 \/ cracks'[c].finished
                 \/ cracks'[c].currentLength > given.cracks[c].currentLength
        ELSE /\ Len(cracks') = (400 + 4 * args.intensity) \div 100
             /\ Len(crackPaths') = Len(cracks')
             /\ \A c \in 1..Len(cracks') :
                  /\ Len(cracks'[c].points) = 1
                  /\ cracks'[c].currentLength = 0
                  /\ ~cracks'[c].finished ]_vars

\* growTensionCracks is about to return from a call on a list that held an
\* unfinished branch, which it grew by a point and then finished
C21_Witness ==
  /\ op = "growTensionCracks"
  /\ pc = "tension"
  /\ given.crackPaths # << >>
  /\ pass >= growthRateOf(args.intensity)
  /\ \E c \in 1..Len(given.cracks) :
       /\ given.cracks[c].depth = 1
       /\ ~given.cracks[c].finished
       /\ cracks[c].currentLength > given.cracks[c].currentLength
       /\ Len(cracks[c].points) > Len(given.cracks[c].points)
       /\ cracks[c].finished


(***************************************************************************)
(* Properties of growCrackStep (SpecGrow)                                  *)
(***************************************************************************)
\* C22: currentLength is the length of the steps whose points are in
\* points: it never decreases, a growCrackStep call that appends no point
\* leaves it as it was, and a call that appends a point adds the length of
\* that step to it
C22_LengthIsArcLength ==
  [][ \A c \in 1..Len(cracks) :
        /\ cracks'[c].currentLength >= cracks[c].currentLength
        /\ cracks'[c].points = cracks[c].points
             => cracks'[c].currentLength = cracks[c].currentLength
        /\ Len(cracks'[c].points) = Len(cracks[c].points) + 1
             => \E rStep \in rng.step :
                  cracks'[c].currentLength
                    = cracks[c].currentLength + stepSizeOf(rStep) ]_vars

\* the point (x, y) is at most 0.95 * bowlRadius away from the vessel centre:
\* d * d <= 0.9025 * R * R
withinRim(x, y) ==
  400 * ((x - canvas.centerX) * (x - canvas.centerX)
           + (y - canvas.centerY) * (y - canvas.centerY))
    <= 361 * canvas.bowlRadius * canvas.bowlRadius

\* C23: every point growCrackStep has appended to a crack lies within
\* 0.95 * bowlRadius of the vessel centre, and a call whose new point lies
\* outside that circle sets finished and leaves points as it was
C23_PointsInsideRim ==
  [][ \A c \in 1..Len(cracks) :
        /\ \A k \in (Len(cracks[c].points) + 1)..Len(cracks'[c].points) :
             withinRim(cracks'[c].points[k].x, cracks'[c].points[k].y)
        /\ (lastGrew'.crack = c /\ ~cracks[c].finished
              /\ \E rStep \in rng.step, dTheta \in rng.heading :
                   LET last == cracks[c].points[Len(cracks[c].points)]
                       a    == NormDeg(cracks[c].angle + dTheta)
                   IN /\ cracks'[c].angle = a
                      /\ cracks'[c].currentLength
                           = cracks[c].currentLength + stepSizeOf(rStep)
                      /\ ~withinRim(last.x + Round(Cos(a) * stepSizeOf(rStep), 1000),
                                    last.y + Round(Sin(a) * stepSizeOf(rStep), 1000)))
             => (cracks'[c].finished /\ cracks'[c].points = cracks[c].points) ]_vars

\* a crack of several points that the rim has just finished, with budget
\* left: the last growCrackStep call on it appended nothing
C23_Witness ==
  /\ lastGrew.crack >= 1
  /\ ~lastGrew.wasFinished
  /\ ~lastGrew.grew
  /\ cracks[lastGrew.crack].finished
  /\ cracks[lastGrew.crack].currentLength < cracks[lastGrew.crack].maxLength
  /\ Len(cracks[lastGrew.crack].points) >= 2

\* C24: a branch is spawned only by a growCrackStep call that appended a
\* point to its parent, with the parent longer than 30 and of depth below
\* 3; the branch starts at the parent's new last point, and its maxLength
\* is at most what the parent has left, maxLength - currentLength
C24_BranchWithinRemainingBudget ==
  [][ \A c \in 1..Len(cracks) :
        Len(cracks'[c].branches) > Len(cracks[c].branches) =>
          LET branch == cracks'[cracks'[c].branches[Len(cracks'[c].branches)]]
          IN /\ Len(cracks'[c].points) = Len(cracks[c].points) + 1
             /\ cracks'[c].currentLength > 30
             /\ cracks[c].depth < 3
             /\ branch.points = << cracks'[c].points[Len(cracks'[c].points)] >>
             /\ branch.maxLength
                  <= cracks'[c].maxLength - cracks'[c].currentLength ]_vars


(***************************************************************************)
(* Properties of the returned fragments, paths, seams and pools (Spec)     *)
(***************************************************************************)
\* C25: the rim arc of every sector goes from the ending angle of its first
\* crack to the ending angle of its second crack the shorter way round: no
\* rim arc extends over more than half a turn
C25_RimArcAtMostHalfTurn ==
  pc = "done" => \A i \in 1..Len(dividers) : sectorArc(i) <= PI

RECURSIVE withBranches(_)
\* the cracks of S and every crack below them
withBranches(S) ==
  LET T == S \cup UNION {branchesOf(c) : c \in S}
  IN IF T = S THEN S ELSE withBranches(T)

\* the cracks of the forest the returned crackPaths holds
forest == withBranches(Range(crackPaths))

\* the number of seams the paths before path k contribute
seamsBefore(k) == SumSeq([q \in 1..(k - 1) |-> Len(paths[q].points) - 1])

\* C26: paths holds one record per crack of the forest (top-level cracks,
\* branches and ring cracks), a parent before its branches; a record with k
\* points yields exactly k - 1 seams, in order, seam i from point i to point
\* i + 1, so that consecutive seams of a path share an endpoint, a one-point
\* path yields none and seams.length is the sum of k - 1 over the paths
C26_SeamsProjectPaths ==
  pc = "done" =>
    LET seams == pathsToSeams(paths)
    IN /\ Len(paths) = Cardinality(forest)
       /\ \E order \in {collectAllCracks(cracks, crackPaths)} :
            /\ Len(order) = Len(paths)
            /\ Range(order) = forest
            /\ \A i, j \in 1..Len(order) :
                 order[j] \in branchesOf(order[i]) => i < j
            /\ \A k \in 1..Len(paths) :
                 /\ paths[k].rawPoints = cracks[order[k]].points
                 /\ paths[k].depth = cracks[order[k]].depth
       /\ Len(seams) = SumSeq([k \in 1..Len(paths) |-> Len(paths[k].points) - 1])
       /\ \A k \in 1..Len(paths) :
            \A i \in 1..(Len(paths[k].points) - 1) :
              /\ seams[seamsBefore(k) + i].x1 = paths[k].points[i].x
              /\ seams[seamsBefore(k) + i].y1 = paths[k].points[i].y
              /\ seams[seamsBefore(k) + i].x2 = paths[k].points[i + 1].x
              /\ seams[seamsBefore(k) + i].y2 = paths[k].points[i + 1].y
              /\ i > 1 => /\ seams[seamsBefore(k) + i].x1 = seams[seamsBefore(k) + i - 1].x2
                          /\ seams[seamsBefore(k) + i].y1 = seams[seamsBefore(k) + i - 1].y2

\* a returned fracture with a one-point path, a path of three points or more
\* and a branch, whose record follows its parent's
C26_Witness ==
  /\ pc = "done"
  /\ \E k \in 1..Len(paths) : Len(paths[k].points) = 1
  /\ \E k \in 1..Len(paths) : Len(paths[k].points) >= 3
  /\ \E k \in 2..Len(paths) : paths[k].depth = 1 /\ paths[k - 1].depth = 0
  /\ \E c \in Range(crackPaths) : cracks[c].branches # << >>
  /\ Len(pathsToSeams(paths)) >= 3

\* the pairs i < j of seams, of the seams handed to findIntersections, for
\* which lineIntersection reports a crossing
crossingPairs ==
  { pair \in (1..Len(probe.seams)) \X (1..Len(probe.seams)) :
      /\ pair[1] < pair[2]
      /\ lineIntersection(probe.seams[pair[1]], probe.seams[pair[2]]).hit }

\* C27: pools holds exactly one entry per unordered pair of distinct seams
\* for which lineIntersection reports a crossing, and no other entry, so at
\* most n(n-1)/2 for n seams; two consecutive seams of one path never give a
\* pool; and lineIntersection gives the same answer for a pair in either
\* order
C27_PoolsAreCrossingPairs ==
  (probe.fn = "findIntersections" /\ probe.called) =>
    LET seams == probe.seams
        pools == probe.result
        n     == Len(seams)
    IN /\ Len(pools) = Cardinality(crossingPairs)
       /\ 2 * Len(pools) <= n * (n - 1)
       /\ \A k \in 1..Len(pools) :
            \E pair \in crossingPairs :
              /\ pools[k].x = lineIntersection(seams[pair[1]], seams[pair[2]]).x
              /\ pools[k].y = lineIntersection(seams[pair[1]], seams[pair[2]]).y
       /\ \A pair \in crossingPairs :
            \E k \in 1..Len(pools) :
              /\ pools[k].x = lineIntersection(seams[pair[1]], seams[pair[2]]).x
              /\ pools[k].y = lineIntersection(seams[pair[1]], seams[pair[2]]).y
       /\ \A i \in 1..(n - 1) :
            (seams[i].x2 = seams[i + 1].x1 /\ seams[i].y2 = seams[i + 1].y1)
              => <<i, i + 1>> \notin crossingPairs
       /\ \A i, j \in 1..n :
            lineIntersection(seams[i], seams[j]) = lineIntersection(seams[j], seams[i])

\* the two-point path crosses both seams of the three-point path: two pools
\* from three seams, none from the two consecutive seams
C27_Witness ==
  /\ probe.fn = "findIntersections" /\ probe.called
  /\ Len(probe.seams) = 3
  /\ Len(probe.result) = 2
  /\ probe.result[1] # probe.result[2]

(***************************************************************************)
(* Properties of addRingCracks (Spec)                                      *)
(***************************************************************************)
\* the ring cracks of a crack list: its top-level cracks of depth 1 (primary
\* cracks have depth 0, and branches are not in the list)
ringsOf(arena, list) == {c \in Range(list) : arena[c].depth = 1}

\* C28: ring cracks are added only by createFracture, after finalization,
\* and only when intensity > 0.5 (none at 0.5); a call that adds them adds
\* floor(1 + 2 * intensity); a ring crack is created finished, with 16
\* points and no branches, and no later step changes it
C28_RingCracksPlacedFinished ==
  [][ /\ \A c \in ringsOf(cracks', crackPaths') :
           IF c \in 1..Len(cracks) /\ c \in ringsOf(cracks, crackPaths)
           THEN cracks'[c] = cracks[c]
           ELSE /\ op = "createFracture" /\ pc = "rings"
                /\ args.intensity > 50
                /\ \A d \in 1..Len(cracks) : cracks[d].finished
                /\ cracks'[c].finished
                /\ Len(cracks'[c].points) = 16
                /\ cracks'[c].branches = << >>
      /\ (op = "createFracture" /\ pc = "rings" /\ pc' \in {"done", "threw"}) =>
           Cardinality(ringsOf(cracks, crackPaths))
             - Cardinality(ringsOf(given.cracks, given.crackPaths))
             = IF args.intensity > 50 THEN (100 + 2 * args.intensity) \div 100 ELSE 0
    ]_vars

\* growTensionCracks has just called growCrackStep on one of the two ring
\* cracks a createFracture call of intensity 0.6 added, and left it as it was
C28_Witness ==
  /\ op = "growTensionCracks" /\ pc = "tension"
  /\ prev.made /\ prev.intensity = 60
  /\ Cardinality(ringsOf(cracks, crackPaths)) = 2
  /\ lastGrew.crack \in ringsOf(cracks, crackPaths)
  /\ lastGrew.wasFinished /\ ~lastGrew.grew
  /\ Len(cracks[lastGrew.crack].points) = 16

(***************************************************************************)
(* Properties of the break-and-mend cycle (SpecCycle)                      *)
(***************************************************************************)
\* C29: once the hold is released in TENSION, the machine returns to WHOLE
C29_CycleCompletes == (current = "tension" /\ ~isHolding) ~> (current = "whole")

(***************************************************************************)
(* Properties of the rate limiter (SpecRate)                               *)
(***************************************************************************)
\* C30: at most 10 requests of a client key are let through within one
\* window, from the request that opens it until its reset time 60 s later;
\* further requests of the window get status 429 and leave the stored
\* count as it is; remaining is never negative; the first request after the
\* reset time opens a new window with count 1; and a request changes no
\* other key's record
C30_AtMostTenPerWindow ==
  /\ [](\A k \in ClientKeys :
          /\ served[k].allowed <= 10
          /\ served[k].opened =>
                /\ rateLimitMap[k].present
                /\ rateLimitMap[k].count = served[k].allowed
                /\ rateLimitMap[k].resetTime = served[k].since + 60000)
  /\ [](probe.fn = "POST" => probe.remaining >= 0)
  /\ [][ now' = now =>
           \E k \in ClientKeys :
             /\ probe'.key = k
             /\ \A j \in ClientKeys \ {k} : rateLimitMap'[j] = rateLimitMap[j]
             /\ (served[k].opened /\ served[k].allowed >= 10
                   /\ now <= served[k].since + 60000)
                  => (probe'.status = 429 /\ rateLimitMap' = rateLimitMap)
             /\ (rateLimitMap[k].present /\ now > rateLimitMap[k].resetTime)
                  => /\ probe'.status # 429
                     /\ rateLimitMap'[k].count = 1
                     /\ rateLimitMap'[k].resetTime = now + 60000
             /\ probe'.status = 429 => rateLimitMap' = rateLimitMap ]_vars

\* the eleventh request of a key, made at the reset time of its window, has
\* been refused, while another key has been served in a window of its own
C30_Witness ==
  /\ probe.fn = "POST" /\ probe.status = 429
  /\ served[probe.key].allowed = 10
  /\ now = rateLimitMap[probe.key].resetTime
  /\ \E j \in ClientKeys \ {probe.key} :
       /\ rateLimitMap[j].present
       /\ rateLimitMap[j].count < 10
       /\ rateLimitMap[j].resetTime > rateLimitMap[probe.key].resetTime

====
